---- MODULE Spec2Model ----
(***************************************************************************)
(* Model of dwlf-cli: the resilient request wrapper (DWLFApiClient and     *)
(* RateLimiter, src/src/backtest.test.ts:240-501, which holds the source   *)
(* of the api-client module), its pure helpers, the configuration module   *)
(* and the command handlers.                                               *)
(*                                                                         *)
(* Nine specifications share the module:                                   *)
(*   Spec      the client as a state machine: callers, the rate-limiter    *)
(*             gate, HTTP dispatches, the response interceptor, the retry  *)
(*             loop and the clock;                                         *)
(*   SpecLive  Spec with the fairness of the event loop;                   *)
(*   SpecFn    the pure helpers (shouldRetry, calculateRetryDelay,         *)
(*             extractErrorMessage, handleError) applied to inputs drawn   *)
(*             from bounded sets;                                          *)
(*   SpecParams  cleanParams and the request config get builds, applied to *)
(*             parameter maps drawn from a bounded set;                    *)
(*   SpecSymbol  normalizeSymbol applied to strings drawn from a bounded   *)
(*             set, once, twice, and to variants in case and whitespace;   *)
(*   SpecCli   one run of the command line: the environment and the config *)
(*             file, the login handler, the command handlers with their    *)
(*             requests, fetchEvents, the polling of backtest run, the     *)
(*             output and the exit status;                                 *)
(*   SpecMask  maskApiKey applied to keys of bounded length;               *)
(*   SpecGate  Spec with one attempt per request, windows of 1 and 2 ms    *)
(*             and one or two client instances;                            *)
(*   SpecTrade the trades open handler applied to options drawn from a     *)
(*             bounded set.                                                *)
(*                                                                         *)
(* this.http is the instance axios.create returns. axios passes every      *)
(* rejected request through the response interceptor the constructor       *)
(* registers, so makeRequest's catch block receives the ApiError of        *)
(* handleError; the instance the repository's tests run the client on      *)
(* (src/src/api-client.test.ts:15-35) stores the interceptor without       *)
(* applying it, so there the catch block receives the transport's error.   *)
(* The variable transport says which of the two the client runs on.        *)
(***************************************************************************)
EXTENDS Integers, Sequences, FiniteSets, TLC

VARIABLES
    transport,    \* what this.http is: "axios" applies the registered response
                  \* interceptor, "mock" (the test-suite's instance) does not
    retryConfig,  \* DWLFApiClient.retryConfig
    rateLimiter,  \* DWLFApiClient.rateLimiter: [present, maxRequests, windowMs]
    requests,     \* per client instance: RateLimiter.requests, the timestamp log
    now,          \* Date.now()
    pc,           \* per caller: where its makeRequest call stands
    attempt,      \* per caller: makeRequest's local `attempt`
    wake,         \* per caller: expiry of the setTimeout it is suspended on
    outcome,      \* per caller: how its makeRequest promise settled
    calls,        \* per caller: number of this.http.<method> calls made
    sleeps,       \* per caller: number of backoff sleeps made
    replies,      \* per caller: what each dispatch was answered with
    passed,       \* per caller: time it passed the gate (-1: not yet)
    submitted,    \* the makeRequest calls in order: [caller, at, client]
    dispatched,   \* per caller: the times of its HTTP dispatches
    fnArg,        \* SpecFn: the inputs of the helper under check
    fnRet,        \* SpecFn: its results
    fnOp,         \* SpecFn: which helper has been applied
    env,          \* process.env.DWLF_API_KEY
    configFile,   \* ~/.dwlf/config.json
    startFile,    \* what configFile held when the command was started
    cmd,          \* the command (or exported function) being run
    hpc,          \* where its handler stands
    stage,        \* the handler's current step of API requests
    branches,     \* the requests of that step: pending, fulfilled or rejected
    output,       \* the lines printed so far
    exitCode,     \* the status the process ended with (-1: still running)
    saveCalls,    \* number of saveConfig calls made
    ret,          \* what the exported function returned
    local         \* the handler's local variables

vars == <<transport, retryConfig, rateLimiter, requests, now, pc, attempt, wake,
          outcome, calls, sleeps, replies, passed, submitted,
          dispatched, fnArg, fnRet, fnOp, env, configFile, startFile, cmd, hpc,
          stage, branches, output, exitCode, saveCalls, ret, local>>

clientVars == <<transport, retryConfig, rateLimiter, requests, now, pc, attempt,
                wake, outcome, calls, sleeps, replies, passed,
                submitted, dispatched>>

fnVars == <<fnArg, fnRet, fnOp>>

handlerVars == <<env, configFile, startFile, cmd, hpc, stage, branches, output,
                 exitCode, saveCalls, ret, local>>

-----------------------------------------------------------------------------
(* Bounds of the model *)

NumCallers == 3         \* concurrent callers of one client
MaxRetriesBound == 2    \* maxRetries ranges over 0..MaxRetriesBound
MaxAttemptArg == 4      \* SpecFn: attempt numbers 0..MaxAttemptArg
LastCallTime == 1       \* callers invoke makeRequest at times 0..LastCallTime
MaxLatency == 1         \* a dispatch is answered within MaxLatency ms
NumClients == 2         \* client instances with the same configuration

Callers == 1..NumCallers

\* the DWLFApiClient instances a process may construct
Clients == 1..NumClients

(* Program constants *)
DefaultMaxDelay == 10000
DefaultBackoffMultiplier == 2

-----------------------------------------------------------------------------
(* JavaScript values of a response body's field *)

Undef == [t |-> "undefined", v |-> ""]
Str(s) == [t |-> "string", v |-> s]
Obj(json) == [t |-> "object", v |-> json]

\* JS truthiness of a body field
\* a truthiness test that takes the empty string for a value
Truthy_EmptyString(val) == val.t \in {"object", "string"}

Truthy(val) == val.t = "object" \/ (val.t = "string" /\ val.v # "")

\* String(x)
JsString(val) == IF val.t = "object" THEN "[object Object]" ELSE val.v

\* typeof x === 'string' ? x : JSON.stringify(x)
StringOrJson(val) == val.v

NoResponse == [present |-> FALSE, status |-> 0, error |-> Undef, message |-> Undef]
Response(st, e, m) == [present |-> TRUE, status |-> st, error |-> e, message |-> m]

\* error.response?.status, 0 standing for undefined
ResponseStatus(error) == IF error.response.present THEN error.response.status ELSE 0

\* An AxiosError as the transport rejects with it
AxiosError(code, message, response) ==
    [code |-> code, message |-> message, response |-> response,
     status |-> 0, isApiError |-> FALSE]

\* error.message.includes('timeout')
TimeoutMessages == {"timeout of 30000ms exceeded"}
IncludesTimeout(message) == message \in TimeoutMessages


-----------------------------------------------------------------------------
(* The pure helpers of DWLFApiClient *)

MsgCannotConnect == "Cannot connect to DWLF API. Please check your internet connection."
MsgTimedOut == "Request timed out. Please try again."
MsgInvalidKey == "Invalid API key. Please check your authentication credentials."
MsgForbidden == "Access forbidden. You may not have permission to access this resource."
MsgNotFound == "Resource not found."
MsgRateLimit == "Rate limit exceeded. Please wait a moment before trying again."
MsgServerError == "Server error. Please try again later."
MsgUnknown == "Unknown error occurred"

\* extractErrorMessage looking at the body's message before its error
extractErrorMessage_MessageFirst(error) ==
    IF error.code = "ECONNREFUSED" THEN MsgCannotConnect
    ELSE IF error.code = "ETIMEDOUT" \/ IncludesTimeout(error.message) THEN MsgTimedOut
    ELSE LET status == ResponseStatus(error)
             data == error.response
         IN  IF status = 401 THEN MsgInvalidKey
             ELSE IF status = 403 THEN MsgForbidden
             ELSE IF status = 404 THEN MsgNotFound
             ELSE IF status = 429 THEN MsgRateLimit
             ELSE IF status # 0 /\ status >= 500 THEN MsgServerError
             ELSE IF Truthy(data.message) THEN JsString(data.message)
             ELSE IF Truthy(data.error) THEN StringOrJson(data.error)
             ELSE IF error.message # "" THEN error.message
             ELSE MsgUnknown

extractErrorMessage(error) ==
    IF error.code = "ECONNREFUSED" THEN MsgCannotConnect
    ELSE IF error.code = "ETIMEDOUT" \/ IncludesTimeout(error.message) THEN MsgTimedOut
    ELSE LET status == ResponseStatus(error)
             data == error.response
         IN  IF status = 401 THEN MsgInvalidKey
             ELSE IF status = 403 THEN MsgForbidden
             ELSE IF status = 404 THEN MsgNotFound
             ELSE IF status = 429 THEN MsgRateLimit
             ELSE IF status # 0 /\ status >= 500 THEN MsgServerError
             ELSE IF Truthy(data.error) THEN StringOrJson(data.error)
             ELSE IF Truthy(data.message) THEN JsString(data.message)
             ELSE IF error.message # "" THEN error.message
             ELSE MsgUnknown

\* handleError with `apiError.status = status` left out
handleError_NoStatus(error) ==
    [code |-> "", message |-> "API Error: " \o extractErrorMessage(error),
     response |-> NoResponse, status |-> 0, isApiError |-> TRUE]

\* The ApiError handleError throws: a fresh Error carrying status and
\* isApiError; it has neither a code nor a response.
handleError(error) ==
    [code |-> "", message |-> "API Error: " \o extractErrorMessage(error),
     response |-> NoResponse, status |-> ResponseStatus(error), isApiError |-> TRUE]

\* Math.pow on the integers the retry loop passes (exponent >= 0)
Pow(b, e) == b^e

Min(a, b) == IF a <= b THEN a ELSE b

\* calculateRetryDelay with the exponent `attempt` for `attempt - 1`
calculateRetryDelay_OffByOne(n) ==
    LET delay == retryConfig.baseDelay * Pow(retryConfig.backoffMultiplier, n)
    IN  Min(delay, retryConfig.maxDelay)

calculateRetryDelay(n) ==
    LET delay == retryConfig.baseDelay * Pow(retryConfig.backoffMultiplier, n - 1)
    IN  Min(delay, retryConfig.maxDelay)

\* shouldRetry without the test of the attempt number
shouldRetry_NoLimit(error, n) ==
    IF error.code = "ECONNREFUSED" \/ error.code = "ETIMEDOUT" THEN TRUE
    ELSE LET status == ResponseStatus(error)
         IN  status = 429 \/ (status # 0 /\ status >= 500 /\ status <= 599)

\* shouldRetry taking every error status for retryable
shouldRetry_AnyStatus(error, n) ==
    IF n >= retryConfig.maxRetries THEN FALSE
    ELSE IF error.code = "ECONNREFUSED" \/ error.code = "ETIMEDOUT" THEN TRUE
    ELSE LET status == ResponseStatus(error)
         IN  status # 0 /\ status >= 400

shouldRetry(error, n) ==
    IF n >= retryConfig.maxRetries THEN FALSE
    ELSE IF error.code = "ECONNREFUSED" \/ error.code = "ETIMEDOUT" THEN TRUE
    ELSE LET status == ResponseStatus(error)
         IN  status = 429 \/ (status # 0 /\ status >= 500 /\ status <= 599)

\* What a rejected this.http.<method>(...) promise carries: axios runs the
\* interceptor registered by the constructor, the test-suite's mock instance
\* only stores it.
Rejection(error) == IF transport = "axios" THEN handleError(error) ELSE error

-----------------------------------------------------------------------------
(* Configurations and network replies of the client specification *)

BaseDelays == {1}             \* retryDelay options, ms
Windows == {2}                \* rateLimit.per options, ms
MaxRequestsOptions == {1, 2}  \* rateLimit.requests options

NoRateLimit == [present |-> FALSE, maxRequests |-> 0, windowMs |-> 0]

ErrConnRefused == AxiosError("ECONNREFUSED", "connect ECONNREFUSED", NoResponse)
ErrStatus(st) == AxiosError("ERR_BAD_RESPONSE", "Request failed with status code",
                            Response(st, Undef, Undef))

\* The failures the network answers a dispatch with in Spec
NetErrors == {ErrConnRefused, ErrStatus(500), ErrStatus(404)}

NoError == AxiosError("", "", NoResponse)

\* What the network answers a dispatch with
Ok == [ok |-> TRUE, error |-> NoError]
Failure(e) == [ok |-> FALSE, error |-> e]

\* How a makeRequest promise stands: pending, resolved with data, rejected with error
NoOutcome == [kind |-> "pending", data |-> <<>>, error |-> NoError]
Resolved(d) == [kind |-> "resolved", data |-> d, error |-> NoError]
Rejected(e) == [kind |-> "rejected", data |-> <<>>, error |-> e]

-----------------------------------------------------------------------------
(* The command line: environment, credential file and the running command *)

\* ~/.dwlf/config.json: absent, a JSON object with or without an apiKey, or
\* content JSON.parse rejects
MissingFile == [kind |-> "missing", apiKey |-> Undef]
JsonFile(apiKey) == [kind |-> "json", apiKey |-> apiKey]
CorruptFile == [kind |-> "corrupt", apiKey |-> Undef]

NoReturn == [kind |-> "none", value |-> Undef]
NoLocals ==
    [apiKey |-> Undef, valid |-> FALSE, option |-> "", events |-> <<>>,
     startTime |-> 0, status |-> "", tradeData |-> <<>>]

\* no command has been started
NoCommand ==
    /\ env = Undef
    /\ configFile = MissingFile
    /\ startFile = MissingFile
    /\ cmd = "none"
    /\ hpc = "none"
    /\ stage = 0
    /\ branches = <<>>
    /\ output = <<>>
    /\ exitCode = -1
    /\ saveCalls = 0
    /\ ret = NoReturn
    /\ local = NoLocals

-----------------------------------------------------------------------------
(* The client *)

\* constructor: the state of a fresh client, no request made yet
Init ==
    /\ transport \in {"axios", "mock"}
    /\ retryConfig \in [maxRetries : 0..MaxRetriesBound, baseDelay : BaseDelays,
                        maxDelay : {DefaultMaxDelay},
                        backoffMultiplier : {DefaultBackoffMultiplier}]
    /\ rateLimiter \in {NoRateLimit} \cup
           [present : {TRUE}, maxRequests : MaxRequestsOptions, windowMs : Windows]
    /\ requests = [c \in {1} |-> <<>>]
    /\ now = 0
    /\ pc = [r \in Callers |-> "idle"]
    /\ attempt = [r \in Callers |-> 0]
    /\ wake = [r \in Callers |-> 0]
    /\ outcome = [r \in Callers |-> NoOutcome]
    /\ calls = [r \in Callers |-> 0]
    /\ sleeps = [r \in Callers |-> 0]
    /\ replies = [r \in Callers |-> <<>>]
    /\ passed = [r \in Callers |-> -1]
    /\ submitted = <<>>
    /\ dispatched = [r \in Callers |-> <<>>]
    /\ fnArg = <<>>
    /\ fnRet = <<>>
    /\ fnOp = "none"
    /\ NoCommand

\* every client instance using the rate limiter of the first one
LogOf_Shared(c) == 1

\* the rate limiter whose log client instance c uses: the constructor gives
\* each instance a RateLimiter of its own, with its own requests array
LogOf(c) == c

\* the filter of wait() discarding nothing
Retained_KeepAll(log) == log

\* this.requests.filter(time => now - time < this.windowMs)
Retained(log) == SelectSeq(log, LAMBDA time : now - time < rateLimiter.windowMs)

\* Math.min(...this.requests) of a non-empty log
Oldest(log) == CHOOSE t \in {log[i] : i \in 1..Len(log)} :
                   \A i \in 1..Len(log) : t <= log[i]

\* wait with `>` for `>=` in the test of the log's length
wait_OneTooMany(r, c) ==
    LET kept == Retained(requests[LogOf(c)])
    IN  IF Len(kept) > rateLimiter.maxRequests
        THEN /\ requests' = [requests EXCEPT ![LogOf(c)] = kept]
             /\ wake' = [wake EXCEPT ![r] = now + (rateLimiter.windowMs - (now - Oldest(kept)))]
             /\ pc' = [pc EXCEPT ![r] = "gateSleep"]
             /\ UNCHANGED passed
        ELSE /\ requests' = [requests EXCEPT ![LogOf(c)] = Append(kept, now)]
             /\ passed' = [passed EXCEPT ![r] = now]
             /\ pc' = [pc EXCEPT ![r] = "ready"]
             /\ UNCHANGED wake

\* RateLimiter.wait of client instance c up to its await or its return: prune
\* the log, then either arm the timer for the oldest entry's expiry or record
\* the request
wait(r, c) ==
    LET kept == Retained(requests[LogOf(c)])
    IN  IF Len(kept) >= rateLimiter.maxRequests
        THEN /\ requests' = [requests EXCEPT ![LogOf(c)] = kept]
             /\ wake' = [wake EXCEPT ![r] = now + (rateLimiter.windowMs - (now - Oldest(kept)))]
             /\ pc' = [pc EXCEPT ![r] = "gateSleep"]
             /\ UNCHANGED passed
        ELSE /\ requests' = [requests EXCEPT ![LogOf(c)] = Append(kept, now)]
             /\ passed' = [passed EXCEPT ![r] = now]
             /\ pc' = [pc EXCEPT ![r] = "ready"]
             /\ UNCHANGED wake

\* this.http.<method>(path, ...) is called
httpCall(r) ==
    /\ calls' = [calls EXCEPT ![r] = @ + 1]
    /\ dispatched' = [dispatched EXCEPT ![r] = Append(@, now)]

\* Callers are interchangeable: they are numbered in the order they call
NextCaller(r) == pc[r] = "idle" /\ \A q \in Callers : q < r => pc[q] # "idle"

\* the client instance caller r made its call through
ClientOf(r) == (CHOOSE s \in {submitted[i] : i \in 1..Len(submitted)} : s.caller = r).client

\* get/post/put/delete of client instance c -> makeRequest, with a rate
\* limiter: runs into wait()
CallLimited(r, c) ==
    /\ NextCaller(r)
    /\ c \in DOMAIN requests
    /\ now <= LastCallTime
    /\ rateLimiter.present
    /\ submitted' = Append(submitted, [caller |-> r, at |-> now, client |-> c])
    /\ attempt' = [attempt EXCEPT ![r] = 1]
    /\ wait(r, c)
    /\ UNCHANGED <<transport, retryConfig, rateLimiter, now, outcome, calls, sleeps,
                   replies, dispatched, fnVars, handlerVars>>

\* get/post/put/delete -> makeRequest, no rate limiter: runs into the first
\* this.http call
CallUnlimited(r, c) ==
    /\ NextCaller(r)
    /\ c \in DOMAIN requests
    /\ now <= LastCallTime
    /\ ~rateLimiter.present
    /\ submitted' = Append(submitted, [caller |-> r, at |-> now, client |-> c])
    /\ attempt' = [attempt EXCEPT ![r] = 1]
    /\ httpCall(r)
    /\ pc' = [pc EXCEPT ![r] = "inflight"]
    /\ UNCHANGED <<transport, retryConfig, rateLimiter, requests, now, wake, outcome,
                   sleeps, replies, passed, fnVars, handlerVars>>

\* the timer of wait() fires: `return this.wait()`
GateWake(r) ==
    /\ pc[r] = "gateSleep"
    /\ wake[r] <= now
    /\ wait(r, ClientOf(r))
    /\ UNCHANGED <<transport, retryConfig, rateLimiter, now, attempt, outcome, calls,
                   sleeps, replies, submitted, dispatched, fnVars, handlerVars>>

\* `await this.rateLimiter.wait()` has resolved: first pass of the retry loop
Dispatch(r) ==
    /\ pc[r] = "ready"
    /\ httpCall(r)
    /\ pc' = [pc EXCEPT ![r] = "inflight"]
    /\ UNCHANGED <<transport, retryConfig, rateLimiter, requests, now, attempt, wake,
                   outcome, sleeps, replies, passed, submitted, fnVars, handlerVars>>

\* the call is answered with a response: `return response.data`
Succeed(r) ==
    /\ pc[r] = "inflight"
    /\ replies' = [replies EXCEPT ![r] = Append(@, Ok)]
    /\ outcome' = [outcome EXCEPT ![r] = Resolved(<<r, calls[r]>>)]
    /\ pc' = [pc EXCEPT ![r] = "resolved"]
    /\ UNCHANGED <<transport, retryConfig, rateLimiter, requests, now, attempt, wake,
                   calls, sleeps, passed, submitted, dispatched, fnVars, handlerVars>>

\* the call fails with e: the catch block of makeRequest
Fail(r, e) ==
    /\ pc[r] = "inflight"
    /\ replies' = [replies EXCEPT ![r] = Append(@, Failure(e))]
    /\ LET error == Rejection(e)
       IN  IF ~shouldRetry(error, attempt[r])
           THEN /\ outcome' = [outcome EXCEPT ![r] = Rejected(error)]
                /\ pc' = [pc EXCEPT ![r] = "rejected"]
                /\ UNCHANGED <<wake, sleeps>>
           ELSE /\ wake' = [wake EXCEPT ![r] = now + calculateRetryDelay(attempt[r])]
                /\ sleeps' = [sleeps EXCEPT ![r] = @ + 1]
                /\ pc' = [pc EXCEPT ![r] = "backoff"]
                /\ UNCHANGED outcome
    /\ UNCHANGED <<transport, retryConfig, rateLimiter, requests, now, attempt, calls,
                   passed, submitted, dispatched, fnVars, handlerVars>>

\* the backoff sleep is over: attempt++ and the next pass of the loop
RetryWake(r) ==
    /\ pc[r] = "backoff"
    /\ wake[r] <= now
    /\ attempt' = [attempt EXCEPT ![r] = @ + 1]
    /\ httpCall(r)
    /\ pc' = [pc EXCEPT ![r] = "inflight"]
    /\ UNCHANGED <<transport, retryConfig, rateLimiter, requests, now, wake, outcome,
                   sleeps, replies, passed, submitted, fnVars, handlerVars>>

Last(seq) == seq[Len(seq)]

Sleeping(r) == pc[r] \in {"gateSleep", "backoff"}

\* Time passes by one millisecond. The event loop runs continuations that are
\* ready and timers that are due before the clock moves on.
Tick ==
    /\ \A r \in Callers : pc[r] # "ready"
    /\ \A r \in Callers : Sleeping(r) => wake[r] > now
    /\ \A r \in Callers : pc[r] = "inflight" => now - Last(dispatched[r]) < MaxLatency
    /\ \/ \E r \in Callers : Sleeping(r) \/ pc[r] = "inflight"
       \/ now < LastCallTime
    /\ now' = now + 1
    /\ UNCHANGED <<transport, retryConfig, rateLimiter, requests, pc, attempt, wake,
                   outcome, calls, sleeps, replies, passed, submitted, dispatched,
                   fnVars, handlerVars>>

Next ==
    \/ \E r \in Callers, c \in Clients : CallLimited(r, c)
    \/ \E r \in Callers, c \in Clients : CallUnlimited(r, c)
    \/ \E r \in Callers : GateWake(r)
    \/ \E r \in Callers : Dispatch(r)
    \/ \E r \in Callers : Succeed(r)
    \/ \E r \in Callers, e \in NetErrors : Fail(r, e)
    \/ \E r \in Callers : RetryWake(r)
    \/ Tick

Spec == Init /\ [][Next]_vars

\* The event loop keeps running what is ready, timers fire, the clock advances
\* and the network answers every dispatch (axios times a request out otherwise)
SpecLive == Init /\ [][Next]_vars /\ WF_vars(Next)

-----------------------------------------------------------------------------
(* The helpers applied to bounded inputs *)

FnBaseDelays == {1, 100, 1000, 3000, 20000}   \* retryDelay options, ms

\* Failures without a response, as axios and node raise them
NetworkFailures ==
    {AxiosError("ECONNREFUSED", "connect ECONNREFUSED", NoResponse),
     AxiosError("ETIMEDOUT", "connect ETIMEDOUT", NoResponse),
     AxiosError("ETIMEDOUT", "timeout of 30000ms exceeded", NoResponse),
     AxiosError("ECONNABORTED", "timeout of 30000ms exceeded", NoResponse),
     AxiosError("ECONNRESET", "socket hang up", NoResponse),
     AxiosError("ERR_NETWORK", "Network Error", NoResponse)}

Statuses == {302, 400, 401, 403, 404, 409, 422, 429, 500, 502, 503, 599}
BodyErrors == {Undef, Str(""), Str("Invalid symbol"), Obj("{\"code\":\"E42\"}")}
BodyMessages == {Undef, Str("Custom error message")}

\* Failures with a response: the server answered with a status outside 2xx
HttpFailures ==
    {AxiosError(IF st < 500 THEN "ERR_BAD_REQUEST" ELSE "ERR_BAD_RESPONSE",
                "Request failed with status code", Response(st, e, m)) :
         st \in Statuses, e \in BodyErrors, m \in BodyMessages}

FnErrors == NetworkFailures \cup HttpFailures

InitFn ==
    /\ transport = "axios"
    /\ retryConfig \in [maxRetries : 0..MaxRetriesBound, baseDelay : FnBaseDelays,
                        maxDelay : {DefaultMaxDelay},
                        backoffMultiplier : {DefaultBackoffMultiplier}]
    /\ rateLimiter = NoRateLimit
    /\ requests = [c \in {1} |-> <<>>]
    /\ now = 0
    /\ pc = [r \in Callers |-> "idle"]
    /\ attempt = [r \in Callers |-> 0]
    /\ wake = [r \in Callers |-> 0]
    /\ outcome = [r \in Callers |-> NoOutcome]
    /\ calls = [r \in Callers |-> 0]
    /\ sleeps = [r \in Callers |-> 0]
    /\ replies = [r \in Callers |-> <<>>]
    /\ passed = [r \in Callers |-> -1]
    /\ submitted = <<>>
    /\ dispatched = [r \in Callers |-> <<>>]
    /\ fnArg \in [error : FnErrors, attempt : 0..MaxAttemptArg]
    /\ fnRet = <<>>
    /\ fnOp = "none"
    /\ NoCommand

ApplyShouldRetry ==
    /\ fnOp = "none"
    /\ fnRet' = shouldRetry(fnArg.error, fnArg.attempt)
    /\ fnOp' = "shouldRetry"
    /\ UNCHANGED <<clientVars, handlerVars, fnArg>>

ApplyCalculateRetryDelay ==
    /\ fnOp = "none"
    /\ fnArg.attempt >= 1
    /\ fnRet' = calculateRetryDelay(fnArg.attempt)
    /\ fnOp' = "calculateRetryDelay"
    /\ UNCHANGED <<clientVars, handlerVars, fnArg>>

ApplyExtractErrorMessage ==
    /\ fnOp = "none"
    /\ fnRet' = extractErrorMessage(fnArg.error)
    /\ fnOp' = "extractErrorMessage"
    /\ UNCHANGED <<clientVars, handlerVars, fnArg>>

ApplyHandleError ==
    /\ fnOp = "none"
    /\ fnRet' = handleError(fnArg.error)
    /\ fnOp' = "handleError"
    /\ UNCHANGED <<clientVars, handlerVars, fnArg>>

\* The catch block of makeRequest on what the response interceptor throws in
\* place of the transport's failure: shouldRetry(handleError(e), attempt),
\* next to shouldRetry(e, attempt)
ApplyShouldRetryNormalized ==
    /\ fnOp = "none"
    /\ fnRet' = [raw |-> shouldRetry(fnArg.error, fnArg.attempt),
                 normalized |-> shouldRetry(handleError(fnArg.error), fnArg.attempt)]
    /\ fnOp' = "shouldRetryNormalized"
    /\ UNCHANGED <<clientVars, handlerVars, fnArg>>

\* extractErrorMessage and shouldRetry applied to the same failure
ApplyClassify ==
    /\ fnOp = "none"
    /\ fnRet' = [message |-> extractErrorMessage(fnArg.error),
                 retry |-> shouldRetry(fnArg.error, fnArg.attempt)]
    /\ fnOp' = "classify"
    /\ UNCHANGED <<clientVars, handlerVars, fnArg>>

NextFn ==
    \/ ApplyShouldRetry
    \/ ApplyCalculateRetryDelay
    \/ ApplyExtractErrorMessage
    \/ ApplyHandleError
    \/ ApplyShouldRetryNormalized
    \/ ApplyClassify

SpecFn == InitFn /\ [][NextFn]_vars

-----------------------------------------------------------------------------
(* Vocabulary of the claims *)

Settled(r) == pc[r] \in {"resolved", "rejected"}

IsConnRefused(e) == e.code = "ECONNREFUSED"

\* HTTP 4xx other than 429
IsClientError(e) ==
    e.response.present /\ e.response.status \in 400..499 /\ e.response.status # 429

\* connection refused or HTTP 500, the transient failures of the client specification
IsTransientReply(rep) ==
    /\ ~rep.ok
    /\ IsConnRefused(rep.error) \/ ResponseStatus(rep.error) = 500

AllRepliesConnRefused(r) ==
    /\ Len(replies[r]) >= 1
    /\ \A i \in 1..Len(replies[r]) : ~replies[r][i].ok /\ IsConnRefused(replies[r][i].error)

-----------------------------------------------------------------------------
(* C1: a request whose every attempt fails with connection refused is        *)
(* dispatched exactly maxRetries + 1 times and only then rejects, with the   *)
(* cannot-connect error.                                                     *)
C1_ExhaustsRetries ==
    \A r \in Callers :
        (pc[r] = "rejected" /\ AllRepliesConnRefused(r)) =>
            /\ calls[r] = retryConfig.maxRetries + 1
            /\ outcome[r].error.message = "API Error: " \o MsgCannotConnect

(* C2: with maxRetries >= 1, when the first attempt fails with a transient   *)
(* failure (connection refused or HTTP 500) the request is dispatched a      *)
(* second time, and when that second attempt succeeds the request resolves   *)
(* with its response data after exactly 2 dispatches; no error reaches the   *)
(* caller.                                                                   *)
C2_RetryThenSucceed ==
    \A r \in Callers :
        (/\ retryConfig.maxRetries >= 1
         /\ Settled(r)
         /\ IsTransientReply(replies[r][1])) =>
            /\ Len(replies[r]) >= 2
            /\ replies[r][2] = Ok =>
                   /\ pc[r] = "resolved"
                   /\ outcome[r].data = <<r, 2>>
                   /\ calls[r] = 2

(* C3: an attempt that fails with HTTP 4xx other than 429 is never retried:  *)
(* it is the request's last dispatch, the request rejects with that failure  *)
(* at once and no backoff sleep follows; when it is the first attempt the    *)
(* transport is called exactly once, whatever maxRetries is.                 *)
C3_NoRetryOnClientError ==
    \A r \in Callers : \A i \in 1..Len(replies[r]) :
        (~replies[r][i].ok /\ IsClientError(replies[r][i].error)) =>
            /\ i = Len(replies[r])
            /\ pc[r] = "rejected"
            /\ calls[r] = i
            /\ sleeps[r] = i - 1
            /\ outcome[r] = Rejected(Rejection(replies[r][i].error))

C3_Witness ==
    \E r \in Callers :
        /\ retryConfig.maxRetries = MaxRetriesBound
        /\ replies[r] = <<Failure(ErrStatus(404))>>
        /\ pc[r] = "rejected"
        /\ calls[r] = 1

-----------------------------------------------------------------------------
(* Rate limiting *)

\* every HTTP dispatch the client has made: <<caller, index>>
AllDispatches == {d \in Callers \X (1..(MaxRetriesBound + 1)) : d[2] <= Len(dispatched[d[1]])}

DispatchTime(d) == dispatched[d[1]][d[2]]

\* the dispatches within the trailing windowMs interval that ends with dispatch d
InWindowOf(d) ==
    {e \in AllDispatches :
        /\ DispatchTime(e) <= DispatchTime(d)
        /\ DispatchTime(d) - DispatchTime(e) < rateLimiter.windowMs}

(* C6: with a rate limit configured, the number of HTTP dispatches of the    *)
(* client within any trailing windowMs interval never exceeds maxRequests,   *)
(* every dispatch made by makeRequest counted.                               *)
C6_DispatchesWithinLimit ==
    rateLimiter.present =>
        \A d \in AllDispatches : Cardinality(InWindowOf(d)) <= rateLimiter.maxRequests

\* the first maxRequests + 1 calls were made at the same instant
Burst ==
    /\ rateLimiter.present
    /\ Len(submitted) >= rateLimiter.maxRequests + 1
    /\ \A i \in 1..(rateLimiter.maxRequests + 1) : submitted[i].at = submitted[1].at

(* C7: when maxRequests + 1 requests are issued in immediate succession, the *)
(* first maxRequests pass the gate at once and the last one is neither let   *)
(* through nor dispatched before windowMs after the first request.           *)
C7_BurstDelaysLast ==
    Burst =>
        LET N == rateLimiter.maxRequests
            t0 == submitted[1].at
            last == submitted[N + 1].caller
        IN  /\ \A i \in 1..N : passed[submitted[i].caller] = t0
            /\ passed[last] # -1 => passed[last] >= t0 + rateLimiter.windowMs
            /\ \A i \in 1..Len(dispatched[last]) :
                   dispatched[last][i] >= t0 + rateLimiter.windowMs

C7_Witness ==
    /\ Burst
    /\ rateLimiter.maxRequests = 2
    /\ LET last == submitted[3].caller
       IN  /\ Len(dispatched[last]) >= 1
           /\ dispatched[last][1] = submitted[1].at + rateLimiter.windowMs

-----------------------------------------------------------------------------
(* Retry policy and error normalization, on the helpers *)

\* the failure is a timeout: the socket's ETIMEDOUT, or the request timeout
\* axios reports with a "timeout of <n>ms exceeded" message
IsTimeoutFailure(e) == e.code = "ETIMEDOUT" \/ IncludesTimeout(e.message)

IsRateLimited(e) == ResponseStatus(e) = 429

IsServerError(e) == ResponseStatus(e) \in 500..599

\* transient: connection refused, timeout, HTTP 429 or HTTP 5xx
IsTransient(e) ==
    IsConnRefused(e) \/ IsTimeoutFailure(e) \/ IsRateLimited(e) \/ IsServerError(e)

(* C4: shouldRetry(e, n) is true exactly when n is below maxRetries and e is *)
(* transient (connection refused, timeout, HTTP 429 or HTTP 5xx).            *)
C4_RetryIffTransient ==
    fnOp = "shouldRetry" =>
        (fnRet <=> (fnArg.attempt < retryConfig.maxRetries /\ IsTransient(fnArg.error)))

(* C5: the wait before retry attempt n >= 1 is                               *)
(* min(baseDelay * 2^(n-1), 10000): 100, 200, 400 ms for baseDelay = 100 and *)
(* n = 1, 2, 3, and never more than 10000 ms.                                *)
C5_BackoffDelay ==
    fnOp = "calculateRetryDelay" =>
        LET n == fnArg.attempt
            uncapped == retryConfig.baseDelay * 2^(n - 1)
        IN  /\ fnRet = IF uncapped < 10000 THEN uncapped ELSE 10000
            /\ fnRet <= 10000
            /\ (retryConfig.baseDelay = 100 /\ n \in 1..3) => fnRet = <<100, 200, 400>>[n]

C5_Witness ==
    /\ fnOp = "calculateRetryDelay"
    /\ retryConfig.baseDelay = 100
    /\ fnArg.attempt = 3
    /\ fnRet = 400

\* The message the claim assigns to a failure, by its priority list
NormalizedMessage(e) ==
    LET st == ResponseStatus(e)
    IN  CASE IsConnRefused(e) -> MsgCannotConnect
          [] ~IsConnRefused(e) /\ IsTimeoutFailure(e) -> MsgTimedOut
          [] OTHER ->
               CASE st = 401 -> MsgInvalidKey
                 [] st = 403 -> MsgForbidden
                 [] st = 404 -> MsgNotFound
                 [] st = 429 -> MsgRateLimit
                 [] st \in 500..599 -> MsgServerError
                 [] OTHER ->
                      IF e.response.error \notin {Undef, Str("")} THEN e.response.error.v
                      ELSE IF e.response.message \notin {Undef, Str("")}
                           THEN e.response.message.v
                      ELSE e.message

(* C9: every failure is surfaced with exactly one normalized message, by     *)
(* fixed priority: connection refused, timeout, 401, 403, 404, 429, 5xx,     *)
(* then the response body's error field, else its message field, else the    *)
(* transport's error message.                                                *)
C9_NormalizedMessage ==
    /\ fnOp = "extractErrorMessage" => fnRet = NormalizedMessage(fnArg.error)
    /\ fnOp = "handleError" =>
           fnRet.message = "API Error: " \o NormalizedMessage(fnArg.error)

C9_Witness ==
    /\ fnOp = "handleError"
    /\ ResponseStatus(fnArg.error) = 400
    /\ fnArg.error.response.error = Str("Invalid symbol")
    /\ fnArg.error.response.message = Str("Custom error message")
    /\ fnRet.message = "API Error: Invalid symbol"

(* C8: with a rate limit configured and time advancing, every request that   *)
(* enters the gate, made to wait or not, is eventually dispatched and        *)
(* completes: no request waits forever.                                      *)
C8_GateEventuallyPasses ==
    \A r \in Callers :
        (pc[r] \in {"gateSleep", "ready"}) ~> (Len(dispatched[r]) >= 1 /\ Settled(r))

C8_Witness ==
    \E i \in 1..Len(submitted) :
        LET c == submitted[i].caller
        IN  /\ Len(submitted) > rateLimiter.maxRequests
            /\ passed[c] > submitted[i].at
            /\ Len(dispatched[c]) >= 1
            /\ Settled(c)

-----------------------------------------------------------------------------
(* Query parameters: cleanParams and the request config of makeRequest *)

NumParamKeys == 3       \* a parameter map has at most NumParamKeys keys

\* The keys a caller's parameter map may hold: param1, param2, ...
ParamKeys == 1..NumParamKeys

Null == [t |-> "null", v |-> ""]
Num(n) == [t |-> "number", v |-> n]
Bool(b) == [t |-> "boolean", v |-> b]

\* The values a key of the map may hold
ParamValues == {Undef, Null, Num("0"), Str(""), Bool("false"), Str("value1")}

\* the key is not a property of the object
Absent == [t |-> "absent", v |-> ""]

\* Object.entries(params): the own properties, in insertion order
Entries(obj) ==
    SelectSeq([k \in ParamKeys |-> [key |-> k, value |-> obj[k]]],
              LAMBDA e : e.value # Absent)

\* The parameter maps callers pass, as their entries
ParamMaps == {Entries(obj) : obj \in [ParamKeys -> ParamValues \cup {Absent}]}

\* the optional `params` argument: left out, or a map
NoParams == [given |-> FALSE, entries |-> <<>>]
Params(entries) == [given |-> TRUE, entries |-> entries]

\* cleanParams keeping the truthy values only: `if (value)`
cleanParams_TruthyOnly(entries) ==
    LET cleaned == SelectSeq(entries,
                       LAMBDA e : e.value \notin {Undef, Null, Num("0"), Str(""),
                                                  Bool("false")})
    IN  IF Len(cleaned) > 0 THEN cleaned ELSE <<>>

\* cleanParams: copy the entries whose value is neither undefined nor null
cleanParams(entries) ==
    LET cleaned == SelectSeq(entries, LAMBDA e : e.value # Undef /\ e.value # Null)
    IN  IF Len(cleaned) > 0 THEN cleaned ELSE <<>>

\* makeRequest's AxiosRequestConfig:
\* { params: params ? this.cleanParams(params) : undefined }
RequestConfig(params) ==
    [params |-> IF params.given THEN Params(cleanParams(params.entries)) ELSE NoParams]

\* The client variables of a client no request has been made on
IdleClient ==
    /\ transport = "axios"
    /\ retryConfig = [maxRetries |-> 0, baseDelay |-> 1, maxDelay |-> DefaultMaxDelay,
                      backoffMultiplier |-> DefaultBackoffMultiplier]
    /\ rateLimiter = NoRateLimit
    /\ requests = [c \in {1} |-> <<>>]
    /\ now = 0
    /\ pc = [r \in Callers |-> "idle"]
    /\ attempt = [r \in Callers |-> 0]
    /\ wake = [r \in Callers |-> 0]
    /\ outcome = [r \in Callers |-> NoOutcome]
    /\ calls = [r \in Callers |-> 0]
    /\ sleeps = [r \in Callers |-> 0]
    /\ replies = [r \in Callers |-> <<>>]
    /\ passed = [r \in Callers |-> -1]
    /\ submitted = <<>>
    /\ dispatched = [r \in Callers |-> <<>>]

InitParams ==
    /\ IdleClient
    /\ fnArg \in [params : {NoParams} \cup {Params(p) : p \in ParamMaps}]
    /\ fnRet = <<>>
    /\ fnOp = "none"
    /\ NoCommand

ApplyCleanParams ==
    /\ fnOp = "none"
    /\ fnArg.params.given
    /\ fnRet' = cleanParams(fnArg.params.entries)
    /\ fnOp' = "cleanParams"
    /\ UNCHANGED <<clientVars, handlerVars, fnArg>>

\* client.get(path, params): the config this.http.get is called with
ApplyGet ==
    /\ fnOp = "none"
    /\ fnRet' = RequestConfig(fnArg.params)
    /\ fnOp' = "get"
    /\ UNCHANGED <<clientVars, handlerVars, fnArg>>

NextParams ==
    \/ ApplyCleanParams
    \/ ApplyGet

SpecParams == InitParams /\ [][NextParams]_vars

\* the entries of a map, as a set
EntrySet(entries) == {entries[i] : i \in 1..Len(entries)}

IsDefined(value) == value # Undef /\ value # Null

(* C11: the parameter map sent to the transport holds exactly the entries of *)
(* the map passed to the request whose value is neither undefined nor null,  *)
(* keys and values unchanged and in their order; 0, "" and false are kept.   *)
C11_CleanedParams ==
    (fnOp = "get" /\ fnArg.params.given) =>
        LET p == fnArg.params.entries
            sent == fnRet.params.entries
        IN  /\ fnRet.params.given
            /\ EntrySet(sent) = {e \in EntrySet(p) : IsDefined(e.value)}
            /\ \A i, j \in 1..Len(sent) : i < j => sent[i].key < sent[j].key
            /\ \A e \in EntrySet(p) :
                   e.value \in {Num("0"), Str(""), Bool("false")} => e \in EntrySet(sent)

C11_Witness ==
    /\ fnOp = "get"
    /\ fnArg.params = Params(<<[key |-> 1, value |-> Num("0")],
                               [key |-> 2, value |-> Undef],
                               [key |-> 3, value |-> Null]>>)
    /\ fnRet.params = Params(<<[key |-> 1, value |-> Num("0")]>>)

-----------------------------------------------------------------------------
(* normalizeSymbol. A string is the sequence of its characters. *)

MaxSymbolLen == 5       \* enumerated inputs have up to MaxSymbolLen characters

KNOWN_STOCKS ==
    {<<"N", "V", "D", "A">>,
     <<"T", "S", "L", "A">>,
     <<"M", "E", "T", "A">>,
     <<"A", "A", "P", "L">>,
     <<"A", "M", "Z", "N">>,
     <<"G", "O", "O", "G">>,
     <<"G", "O", "O", "G", "L">>,
     <<"M", "S", "F", "T">>,
     <<"A", "M", "D">>,
     <<"S", "L", "V">>,
     <<"G", "D", "X", "J">>,
     <<"S", "I", "L", "J">>,
     <<"A", "G", "Q">>,
     <<"G", "L", "D">>,
     <<"G", "D", "X">>,
     <<"G", "O", "L", "D">>,
     <<"M", "A", "R", "A">>,
     <<"R", "I", "O", "T">>,
     <<"B", "T", "B", "T">>,
     <<"C", "I", "F", "R">>,
     <<"I", "R", "E", "N">>,
     <<"C", "L", "S", "K">>,
     <<"C", "O", "I", "N">>,
     <<"M", "S", "T", "R">>,
     <<"H", "U", "T">>,
     <<"H", "I", "V", "E">>,
     <<"B", "I", "T", "F">>,
     <<"W", "U", "L", "F">>,
     <<"L", "S", "P", "D">>,
     <<"S", "O", "F", "I">>}

\* String.prototype.toUpperCase on the ASCII letters
UpperOf ==
    [a |-> "A", b |-> "B", c |-> "C", d |-> "D", e |-> "E", f |-> "F", g |-> "G",
     h |-> "H", i |-> "I", j |-> "J", k |-> "K", l |-> "L", m |-> "M", n |-> "N",
     o |-> "O", p |-> "P", q |-> "Q", r |-> "R", s |-> "S", t |-> "T", u |-> "U",
     v |-> "V", w |-> "W", x |-> "X", y |-> "Y", z |-> "Z"]

UpperLetters == {UpperOf[c] : c \in DOMAIN UpperOf}

toUpperCase(str) ==
    [i \in 1..Len(str) |-> IF str[i] \in DOMAIN UpperOf THEN UpperOf[str[i]] ELSE str[i]]

\* String.prototype.toLowerCase on the ASCII letters
toLowerCase(str) ==
    [i \in 1..Len(str) |->
        IF str[i] \in UpperLetters
        THEN CHOOSE c \in DOMAIN UpperOf : UpperOf[c] = str[i]
        ELSE str[i]]

WhiteSpace == {" "}

RECURSIVE trimStart(_)
trimStart(str) ==
    IF str # <<>> /\ Head(str) \in WhiteSpace THEN trimStart(Tail(str)) ELSE str

RECURSIVE trimEnd(_)
trimEnd(str) ==
    IF str # <<>> /\ str[Len(str)] \in WhiteSpace
    THEN trimEnd(SubSeq(str, 1, Len(str) - 1))
    ELSE str

\* String.prototype.trim
trim(str) == trimEnd(trimStart(str))

\* String.prototype.includes, of one character
includes(str, ch) == \E i \in 1..Len(str) : str[i] = ch

\* String.prototype.replace with a string pattern: the first occurrence only
replace(str, ch, by) ==
    IF ~includes(str, ch) THEN str
    ELSE LET first == CHOOSE i \in 1..Len(str) :
                          str[i] = ch /\ \A j \in 1..(i - 1) : str[j] # ch
         IN  [str EXCEPT ![first] = by]

\* the alternation (USD|USDT|EUR|GBP|BTC|ETH)
PairQuotes ==
    {<<"U", "S", "D">>, <<"U", "S", "D", "T">>, <<"E", "U", "R">>,
     <<"G", "B", "P">>, <<"B", "T", "C">>, <<"E", "T", "H">>}

Max(S) == CHOOSE x \in S : \A y \in S : y <= x

\* pairMatch with no bounds on the length of the base: /^([A-Z]+)(USD|...)$/
pairMatch_AnyBase(str) ==
    LET fits(n) == /\ n < Len(str)
                   /\ \A i \in 1..n : str[i] \in UpperLetters
                   /\ SubSeq(str, n + 1, Len(str)) \in PairQuotes
        lens == {n \in 1..Len(str) : fits(n)}
    IN  IF lens = {} THEN <<>>
        ELSE <<SubSeq(str, 1, Max(lens)), SubSeq(str, Max(lens) + 1, Len(str))>>

\* s.match(/^([A-Z]{2,5})(USD|USDT|EUR|GBP|BTC|ETH)$/): <<>> for null, else the
\* two groups; the greedy quantifier tries the longest base first
pairMatch(str) ==
    LET fits(n) == /\ n < Len(str)
                   /\ \A i \in 1..n : str[i] \in UpperLetters
                   /\ SubSeq(str, n + 1, Len(str)) \in PairQuotes
        lens == {n \in 2..5 : fits(n)}
    IN  IF lens = {} THEN <<>>
        ELSE <<SubSeq(str, 1, Max(lens)), SubSeq(str, Max(lens) + 1, Len(str))>>

\* normalizeSymbol without the early return for a '-' in the input
normalizeSymbol_NoDashReturn(input) ==
    LET s == toUpperCase(trim(input))
    IN  IF includes(s, "/") THEN replace(s, "/", "-")
        ELSE IF s \in KNOWN_STOCKS THEN s
        ELSE IF pairMatch(s) # <<>> THEN pairMatch(s)[1] \o <<"-">> \o pairMatch(s)[2]
        ELSE s \o <<"-", "U", "S", "D">>

normalizeSymbol(input) ==
    LET s == toUpperCase(trim(input))
    IN  IF includes(s, "/") THEN replace(s, "/", "-")
        ELSE IF includes(s, "-") THEN s
        ELSE IF s \in KNOWN_STOCKS THEN s
        ELSE IF pairMatch(s) # <<>> THEN pairMatch(s)[1] \o <<"-">> \o pairMatch(s)[2]
        ELSE s \o <<"-", "U", "S", "D">>

\* The characters the enumerated inputs are made of: letters that spell a
\* known ticker (AMD), a lower-case letter, the separators and a blank
SymbolChars == {"A", "M", "D", "a", "/", "-", " "}

\* Endings put after the enumerated strings, so that pair-shaped inputs and
\* bases of more than five letters occur
SymbolTails == {<<>>, <<"U", "S", "D">>, <<"U", "S", "D", "T">>, <<"A", "U", "S", "D">>}

SymbolInputs ==
    {h \o t : h \in UNION {[1..n -> SymbolChars] : n \in 0..MaxSymbolLen},
              t \in SymbolTails}

\* Strings that differ from str in letter case or surrounding whitespace only
Variants(str) ==
    {toLowerCase(str), toUpperCase(str), <<" ">> \o str, str \o <<" ">>}

InitSymbol ==
    /\ IdleClient
    /\ fnArg \in [input : SymbolInputs]
    /\ fnRet = <<>>
    /\ fnOp = "none"
    /\ NoCommand

ApplyNormalizeSymbol ==
    /\ fnOp = "none"
    /\ fnRet' = normalizeSymbol(fnArg.input)
    /\ fnOp' = "normalizeSymbol"
    /\ UNCHANGED <<clientVars, handlerVars, fnArg>>

\* normalizeSymbol applied to its own result
ApplyNormalizeAgain ==
    /\ fnOp = "normalizeSymbol"
    /\ fnRet' = [once |-> fnRet, twice |-> normalizeSymbol(fnRet)]
    /\ fnOp' = "normalizeSymbolTwice"
    /\ UNCHANGED <<clientVars, handlerVars, fnArg>>

\* normalizeSymbol applied to a variant of the input
ApplyNormalizeVariant(y) ==
    /\ fnOp = "none"
    /\ fnRet' = [of |-> y, result |-> normalizeSymbol(y)]
    /\ fnOp' = "normalizeSymbolVariant"
    /\ UNCHANGED <<clientVars, handlerVars, fnArg>>

NextSymbol ==
    \/ ApplyNormalizeSymbol
    \/ ApplyNormalizeAgain
    \/ \E y \in Variants(fnArg.input) : ApplyNormalizeVariant(y)

SpecSymbol == InitSymbol /\ [][NextSymbol]_vars

\* the input after step 1: trimmed and upper-cased
Step1(input) == toUpperCase(trim(input))

\* every occurrence of ch replaced
ReplaceEach(str, ch, by) == [i \in 1..Len(str) |-> IF str[i] = ch THEN by ELSE str[i]]

(* C12: for every input containing '/', normalizeSymbol returns the trimmed, *)
(* upper-cased input with each '/' replaced by '-' and nothing else changed. *)
C12_EachSlashReplaced ==
    (fnOp = "normalizeSymbol" /\ includes(fnArg.input, "/")) =>
        fnRet = ReplaceEach(Step1(fnArg.input), "/", "-")

(* C13 as stated: for every input containing '-', normalizeSymbol returns    *)
(* the input unchanged.                                                      *)
C13_DashIdentity ==
    (fnOp = "normalizeSymbol" /\ includes(fnArg.input, "-")) => fnRet = fnArg.input

(* C13 amended: for every input containing '-' and no '/', normalizeSymbol   *)
(* returns the input trimmed and upper-cased and changes nothing else; it    *)
(* returns the input unchanged exactly when the input is already trimmed and *)
(* upper-case.                                                               *)
C13_DashKept ==
    (/\ fnOp = "normalizeSymbol"
     /\ includes(fnArg.input, "-")
     /\ ~includes(fnArg.input, "/")) =>
        /\ fnRet = Step1(fnArg.input)
        /\ fnRet = fnArg.input <=> Step1(fnArg.input) = fnArg.input

C13_Witness ==
    /\ fnOp = "normalizeSymbol"
    /\ fnArg.input = <<" ", "a", "-", "M">>
    /\ fnRet = <<"A", "-", "M">>

\* str is <2-5 letters><quote>
IsPairOf(str, base, quote) ==
    /\ str = base \o quote
    /\ Len(base) \in 2..5
    /\ \A i \in 1..Len(base) : base[i] \in UpperLetters
    /\ quote \in PairQuotes

Prefixes(str) == {SubSeq(str, 1, n) : n \in 0..Len(str)}
Suffixes(str) == {SubSeq(str, n + 1, Len(str)) : n \in 0..Len(str)}

(* C14: for every input that, trimmed and upper-cased, contains neither '/'  *)
(* nor '-': a ticker of the allow-list is returned unchanged; otherwise a    *)
(* string of the form <2-5 letters><USD|USDT|EUR|GBP|BTC|ETH> is returned as *)
(* <base>-<quote>; otherwise '-USD' is appended. The allow-list comes first. *)
C14_TickerPairOrBare ==
    LET s == Step1(fnArg.input)
    IN  (fnOp = "normalizeSymbol" /\ ~includes(s, "/") /\ ~includes(s, "-")) =>
            IF s \in KNOWN_STOCKS THEN fnRet = s
            ELSE IF \E b \in Prefixes(s), q \in Suffixes(s) : IsPairOf(s, b, q)
                 THEN \E b \in Prefixes(s), q \in Suffixes(s) :
                          IsPairOf(s, b, q) /\ fnRet = b \o <<"-">> \o q
                 ELSE fnRet = s \o <<"-", "U", "S", "D">>

C14_Witness ==
    /\ fnOp = "normalizeSymbol"
    /\ fnArg.input = <<" ", "a", "M", "D", "A", "U", "S", "D", "T">>
    /\ fnRet = <<"A", "M", "D", "A", "-", "U", "S", "D", "T">>

(* C15: normalizeSymbol is idempotent, normalizeSymbol(normalizeSymbol(x)) = *)
(* normalizeSymbol(x), and gives the same result for inputs that differ in   *)
(* letter case or surrounding whitespace only.                               *)
C15_Idempotent ==
    /\ fnOp = "normalizeSymbolTwice" => fnRet.twice = fnRet.once
    /\ fnOp = "normalizeSymbolVariant" => fnRet.result = normalizeSymbol(fnArg.input)

-----------------------------------------------------------------------------
(* Configuration (config.ts) *)

\* process.env.DWLF_API_KEY: unset, empty or a key
EnvValues == {Undef, Str(""), Str("dwlf_sk_env")}

\* the apiKey property of the stored config object
FileKeys == {Undef, Str(""), Str("dwlf_sk_file")}

ConfigFiles == {MissingFile, CorruptFile} \cup {JsonFile(k) : k \in FileKeys}

\* How a call ends: it returns a value or throws
Returned(v) == [kind |-> "return", value |-> v]
Thrown == [kind |-> "throw", value |-> Undef]

\* loadConfig: {} when the file does not exist, the parsed object otherwise;
\* JSON.parse throws on content it rejects. The config object is given by its
\* apiKey property.
loadConfig(file) ==
    IF file.kind = "corrupt" THEN Thrown ELSE Returned(file.apiKey)

\* getApiKey looking at the config file before the environment
getApiKey_ConfigFirst(e, file) ==
    LET config == loadConfig(file)
    IN  IF config.kind = "throw" THEN Thrown
        ELSE IF Truthy(config.value) THEN Returned(config.value)
        ELSE IF Truthy(e) THEN Returned(e)
        ELSE Returned(Null)

\* getApiKey: the environment variable when it is truthy, else
\* config.apiKey || null
getApiKey(e, file) ==
    IF Truthy(e) THEN Returned(e)
    ELSE LET config == loadConfig(file)
         IN  IF config.kind = "throw" THEN Thrown
             ELSE IF Truthy(config.value) THEN Returned(config.value)
             ELSE Returned(Null)

\* isAuthenticated: apiKey !== null
isAuthenticated(e, file) ==
    LET apiKey == getApiKey(e, file)
    IN  IF apiKey.kind = "throw" THEN Thrown
        ELSE Returned(Bool(IF apiKey.value # Null THEN "true" ELSE "false"))

\* getApiUrl: config.apiUrl || the default URL; it throws when loadConfig does
getApiUrl(file) ==
    IF loadConfig(file).kind = "throw" THEN Thrown ELSE Returned(Str("https://api.dwlf.co.uk"))

\* saveConfig(config): fs.writeFile opens the file truncating it and writes in
\* place. It succeeds, or it throws having left the file as it was (the open
\* failed), or it throws having truncated the file (the write failed).
SaveOutcomes(file, apiKey) ==
    {[file |-> JsonFile(apiKey), threw |-> FALSE],
     [file |-> file, threw |-> TRUE],
     [file |-> CorruptFile, threw |-> TRUE]}

-----------------------------------------------------------------------------
(* Command handlers *)

NumSymbols == 2         \* symbols given to strategies activate / deactivate

\* The commands of the program. "signals", "portfolio" (its list subcommand),
\* "events", "chart", "indicators" and "strategies" (its list subcommand) are
\* the handlers the command modules build (createSignalsCommand and so on);
\* "backtest" is backtest run --async, "backtest run" is backtest run without
\* --async.
Commands ==
    {"price", "watchlist", "trades", "portfolio", "signals", "events", "chart",
     "indicators", "strategies", "backtest", "portfolio overview",
     "strategies activate", "strategies deactivate", "indicators --all",
     "backtest run"}

\* the handler makes no API request and asks for no key (index.ts trades)
NoAuthCommands == {"trades"}

\* handlers that build their client with createAuthenticatedClient, which
\* calls process.exit(1) when no key is configured; the others print and return
ExitWhenUnauthenticated == {"signals", "events", "chart", "indicators", "indicators --all"}

\* handlers whose catch blocks call process.exit(1) after printing the error
ExitOnError ==
    {"portfolio", "signals", "events", "chart", "indicators", "portfolio overview",
     "indicators --all"}

\* A step of API requests: one request, or several joined with Promise.all or
\* Promise.allSettled; `caught` says where a failure lands: in the handler's
\* error path, or in a local catch that prints a note and goes on
Single == [kind |-> "single", n |-> 1, caught |-> "error"]
All(n, caught) == [kind |-> "all", n |-> n, caught |-> caught]
AllSettled(n) == [kind |-> "allSettled", n |-> n, caught |-> "error"]
FetchEvents == [kind |-> "fetchEvents", n |-> 2, caught |-> "warning"]
WaitForCompletion == [kind |-> "poll", n |-> 1, caught |-> "error"]

\* the steps of requests each handler makes
Plan(c) ==
    CASE c = "trades" -> <<>>
      [] c = "events" -> <<FetchEvents>>
      [] c = "backtest run" -> <<Single, WaitForCompletion, Single>>
      [] c = "portfolio overview" -> <<All(2, "error")>>
      [] c = "indicators --all" -> <<Single, All(2, "note")>>
      [] c \in {"strategies activate", "strategies deactivate"} -> <<AllSettled(NumSymbols)>>
      [] OTHER -> <<Single>>

Line(kind, branch) == [kind |-> kind, branch |-> branch]

Pending(bs) == {b \in 1..Len(bs) : bs[b] = "pending"}

\* the lines an all-settled report prints: one per branch, in order
SettledReport(bs) ==
    [b \in 1..Len(bs) |-> Line(IF bs[b] = "fulfilled" THEN "result" ELSE "failure", b)]

\* the lines printed when every request of a step has succeeded
Results(bs) == [b \in 1..Len(bs) |-> Line("result", b)]

\* process.exit(code)
Exit(code) == /\ exitCode' = code
              /\ hpc' = "exited"

\* the handler's error path: console.error(...) and, in some handlers,
\* process.exit(1); the handler returns otherwise
HandlerCatch ==
    /\ output' = Append(output, Line("error", 0))
    /\ IF cmd \in ExitOnError THEN Exit(1)
       ELSE /\ hpc' = "returned"
            /\ UNCHANGED exitCode

\* after a step of requests: the next step, or the end of the handler
Proceed ==
    /\ IF stage < Len(Plan(cmd)) THEN hpc' = "send" ELSE hpc' = "returned"
    /\ UNCHANGED exitCode

\* `dwlf <command>`: commander calls the action
RunCommand(c) ==
    /\ cmd = "none"
    /\ cmd' = c
    /\ hpc' = IF c \in NoAuthCommands THEN "body" ELSE "auth"
    /\ startFile' = configFile
    /\ UNCHANGED <<clientVars, fnVars, env, configFile, stage, branches, output,
                   exitCode, saveCalls, ret, local>>

\* the handler without requests prints its table and returns
RunBody ==
    /\ hpc = "body"
    /\ output' = Append(output, Line("result", 0))
    /\ hpc' = "returned"
    /\ UNCHANGED <<clientVars, fnVars, env, configFile, startFile, cmd, stage,
                   branches, exitCode, saveCalls, ret, local>>

\* the key is looked up and the client is built: getApiKey / isAuthenticated,
\* then getApiUrl
Authenticate ==
    /\ hpc = "auth"
    /\ LET apiKey == getApiKey(env, configFile)
       IN  IF apiKey.kind = "throw" \/ (apiKey.value # Null /\ getApiUrl(configFile).kind = "throw")
           THEN /\ HandlerCatch
                /\ UNCHANGED local
           ELSE IF apiKey.value = Null
           THEN /\ output' = Append(output, Line("not authenticated", 0))
                /\ IF cmd \in ExitWhenUnauthenticated THEN Exit(1)
                   ELSE hpc' = "returned" /\ UNCHANGED exitCode
                /\ UNCHANGED local
           ELSE /\ local' = [local EXCEPT !.apiKey = apiKey.value]
                /\ hpc' = "send"
                /\ UNCHANGED <<output, exitCode>>
    /\ UNCHANGED <<clientVars, fnVars, env, configFile, startFile, cmd, stage,
                   branches, saveCalls, ret>>

\* the requests of the next step are made
SendRequests ==
    /\ hpc = "send"
    /\ Plan(cmd)[stage + 1].kind \notin {"fetchEvents", "poll"}
    /\ stage' = stage + 1
    /\ branches' = [b \in 1..Plan(cmd)[stage + 1].n |-> "pending"]
    /\ hpc' = "await"
    /\ UNCHANGED <<clientVars, fnVars, env, configFile, startFile, cmd, output,
                   exitCode, saveCalls, ret, local>>

\* the single request of a step settles
SettleSingle(ok) ==
    /\ hpc = "await"
    /\ Plan(cmd)[stage].kind = "single"
    /\ branches' = <<IF ok THEN "fulfilled" ELSE "rejected">>
    /\ IF ok THEN output' = output \o Results(branches') /\ Proceed
       ELSE HandlerCatch
    /\ UNCHANGED <<clientVars, fnVars, env, configFile, startFile, cmd, stage,
                   saveCalls, ret, local>>

\* a request joined with Promise.all settles. The join resolves when the last
\* request is fulfilled and rejects with the first request that is rejected;
\* what settles after that is not looked at.
SettleAll(b, ok) ==
    /\ exitCode = -1
    /\ stage >= 1
    /\ Plan(cmd)[stage].kind = "all"
    /\ b \in Pending(branches)
    /\ branches' = [branches EXCEPT ![b] = IF ok THEN "fulfilled" ELSE "rejected"]
    /\ IF hpc # "await" THEN UNCHANGED <<hpc, output, exitCode>>
       ELSE IF ~ok
       THEN IF Plan(cmd)[stage].caught = "note"
            THEN /\ output' = Append(output, Line("note", 0))
                 /\ Proceed
            ELSE HandlerCatch
       ELSE IF Pending(branches') = {}
       THEN output' = output \o Results(branches') /\ Proceed
       ELSE UNCHANGED <<hpc, output, exitCode>>
    /\ UNCHANGED <<clientVars, fnVars, env, configFile, startFile, cmd, stage,
                   saveCalls, ret, local>>

\* a request joined with Promise.allSettled settles. The join resolves when
\* every request has settled; the handler then prints one line per request.
SettleAllSettled(b, ok) ==
    /\ hpc = "await"
    /\ Plan(cmd)[stage].kind = "allSettled"
    /\ b \in Pending(branches)
    /\ branches' = [branches EXCEPT ![b] = IF ok THEN "fulfilled" ELSE "rejected"]
    /\ IF Pending(branches') = {}
       THEN output' = output \o SettledReport(branches') /\ Proceed
       ELSE UNCHANGED <<hpc, output, exitCode>>
    /\ UNCHANGED <<clientVars, fnVars, env, configFile, startFile, cmd, stage,
                   saveCalls, ret, local>>

\* the handler has returned and nothing is left in flight: node exits with 0
ExitNormally ==
    /\ hpc = "returned"
    /\ Pending(branches) = {}
    /\ Exit(0)
    /\ UNCHANGED <<clientVars, fnVars, env, configFile, startFile, cmd, stage,
                   branches, output, saveCalls, ret, local>>

-----------------------------------------------------------------------------
(* fetchEvents (events.ts) and the events handler *)

\* filters.type
FilterTypes == {"undefined", "all", "system", "custom"}

Event(id, timestamp) == [id |-> id, timestamp |-> timestamp]

\* what the two requests to /events may answer with (response.events || [])
SystemReplies == {<<>>, <<Event("s1", 1)>>, <<Event("s1", 1), Event("s2", 3)>>}
CustomReplies == {<<>>, <<Event("c1", 2)>>}

SourceReplies(i) == IF i = 1 THEN SystemReplies ELSE CustomReplies

\* source 1 is the system events, source 2 the custom events
WantsSource(type, i) ==
    IF i = 1 THEN type \in {"system", "all", "undefined"}
    ELSE type \in {"custom", "all", "undefined"}

\* where e goes in a list sorted newest first (Array.prototype.sort is stable)
InsertEvent(e, sorted) ==
    LET k == Cardinality({i \in 1..Len(sorted) : sorted[i].timestamp >= e.timestamp})
    IN  SubSeq(sorted, 1, k) \o <<e>> \o SubSeq(sorted, k + 1, Len(sorted))

\* allEvents.sort((a, b) => new Date(b.timestamp) - new Date(a.timestamp))
RECURSIVE SortNewestFirst(_)
SortNewestFirst(events) ==
    IF events = <<>> THEN <<>>
    ELSE InsertEvent(events[Len(events)],
                     SortNewestFirst(SubSeq(events, 1, Len(events) - 1)))

\* fetchEvents(client, filters) is called on its own
CallFetchEvents(type) ==
    /\ cmd = "none"
    /\ cmd' = "fetchEvents"
    /\ hpc' = "fetchEvents"
    /\ local' = [local EXCEPT !.option = type]
    /\ branches' = <<"unsent", "unsent">>
    /\ startFile' = configFile
    /\ UNCHANGED <<clientVars, fnVars, env, configFile, stage, output, exitCode,
                   saveCalls, ret>>

\* the events handler builds its filters (type: options.type || 'all') and
\* calls fetchEvents
EventsFetch(type) ==
    /\ hpc = "send"
    /\ Plan(cmd)[stage + 1].kind = "fetchEvents"
    /\ stage' = stage + 1
    /\ hpc' = "fetchEvents"
    /\ local' = [local EXCEPT !.option = type]
    /\ branches' = <<"unsent", "unsent">>
    /\ UNCHANGED <<clientVars, fnVars, env, configFile, startFile, cmd, output,
                   exitCode, saveCalls, ret>>

\* the next source, in order: its request is made if filters.type asks for it
RequestSource(i) ==
    /\ hpc = "fetchEvents"
    /\ branches[i] = "unsent"
    /\ \A j \in 1..(i - 1) : branches[j] \notin {"unsent", "pending"}
    /\ branches' = [branches EXCEPT
                       ![i] = IF WantsSource(local.option, i) THEN "pending" ELSE "skipped"]
    /\ UNCHANGED <<clientVars, fnVars, env, configFile, startFile, cmd, hpc, stage,
                   output, exitCode, saveCalls, ret, local>>

\* a source's request is answered with events
SourceReply(i, events) ==
    /\ hpc = "fetchEvents"
    /\ branches[i] = "pending"
    /\ branches' = [branches EXCEPT ![i] = "fulfilled"]
    /\ local' = [local EXCEPT !.events = @ \o events]
    /\ UNCHANGED <<clientVars, fnVars, env, configFile, startFile, cmd, hpc, stage,
                   output, exitCode, saveCalls, ret>>

\* the catch block of a source rethrowing the failure
SourceFailed_Rethrow(i) ==
    /\ branches' = [branches EXCEPT ![i] = "rejected"]
    /\ ret' = Thrown
    /\ hpc' = "returned"
    /\ UNCHANGED output

\* the catch block of a source: console.warn and on to the next source
SourceFailed(i) ==
    /\ branches' = [branches EXCEPT ![i] = "rejected"]
    /\ output' = Append(output, Line("warning", i))
    /\ UNCHANGED <<ret, hpc>>

\* a source's request fails
SourceFailure(i) ==
    /\ hpc = "fetchEvents"
    /\ branches[i] = "pending"
    /\ SourceFailed(i)
    /\ UNCHANGED <<clientVars, fnVars, env, configFile, startFile, cmd, stage,
                   exitCode, saveCalls, local>>

\* both sources are done with: fetchEvents returns the sorted list; the events
\* handler prints it
ReturnEvents ==
    /\ hpc = "fetchEvents"
    /\ \A i \in 1..Len(branches) : branches[i] \in {"skipped", "fulfilled", "rejected"}
    /\ ret' = Returned(SortNewestFirst(local.events))
    /\ IF cmd = "fetchEvents" THEN hpc' = "returned" /\ UNCHANGED <<output, exitCode>>
       ELSE output' = Append(output, Line("result", 0)) /\ Proceed
    /\ UNCHANGED <<clientVars, fnVars, env, configFile, startFile, cmd, stage,
                   branches, saveCalls, local>>

\* getApiKey() is called on its own
CallGetApiKey ==
    /\ cmd = "none"
    /\ cmd' = "getApiKey"
    /\ ret' = getApiKey(env, configFile)
    /\ hpc' = "returned"
    /\ startFile' = configFile
    /\ UNCHANGED <<clientVars, fnVars, env, configFile, stage, branches, output,
                   exitCode, saveCalls, local>>

-----------------------------------------------------------------------------
(* waitForCompletion (backtest.ts) and backtest run without --async *)

maxWaitTime == 5 * 60 * 1000
pollInterval == 2000

\* how long a status request takes to be answered, ms
PollLatencies == {0, 1000}

\* BacktestRequest.status
PollStatuses == {"pending", "running", "completed", "failed"}

\* waitForCompletion going on after a poll that returned 'failed'
IsTerminal_CompletedOnly(status) == status = "completed"

\* request.status === 'completed' || request.status === 'failed'
IsTerminal(status) == status \in {"completed", "failed"}

\* throw new Error('Backtest timed out after 5 minutes')
TimedOut == [kind |-> "throw", value |-> Str("Backtest timed out after 5 minutes")]

\* waitForCompletion is called: startTime is taken, the loop is entered and
\* the first status request is made
StartWaiting ==
    /\ hpc = "send"
    /\ Plan(cmd)[stage + 1].kind = "poll"
    /\ stage' = stage + 1
    /\ local' = [local EXCEPT !.startTime = now, !.status = ""]
    /\ branches' = <<"pending">>
    /\ hpc' = "poll.inflight"
    /\ UNCHANGED <<transport, retryConfig, rateLimiter, requests, now, pc, attempt,
                   wake, outcome, calls, sleeps, replies, passed, submitted,
                   dispatched, fnVars, env, configFile, startFile, cmd, output,
                   exitCode, saveCalls, ret>>

\* the status request is answered. A terminal status is returned to the
\* handler, which stops on 'failed' and goes on to the results otherwise;
\* any other status starts the sleep of pollInterval.
PollReply(status, latency) ==
    /\ hpc = "poll.inflight"
    /\ now' = now + latency
    /\ branches' = <<"fulfilled">>
    /\ local' = [local EXCEPT !.status = status]
    /\ IF IsTerminal(status)
       THEN IF status = "failed"
            THEN /\ output' = Append(output, Line("failed", 0))
                 /\ hpc' = "returned"
                 /\ UNCHANGED exitCode
            ELSE /\ output' = Append(output, Line("completed", 0))
                 /\ Proceed
       ELSE /\ hpc' = "poll.sleep"
            /\ UNCHANGED <<output, exitCode>>
    /\ UNCHANGED <<transport, retryConfig, rateLimiter, requests, pc, attempt, wake,
                   outcome, calls, sleeps, replies, passed, submitted, dispatched,
                   fnVars, env, configFile, startFile, cmd, stage, saveCalls, ret>>

\* the status request fails: the error reaches the handler's catch block
PollFailure(latency) ==
    /\ hpc = "poll.inflight"
    /\ now' = now + latency
    /\ branches' = <<"rejected">>
    /\ HandlerCatch
    /\ UNCHANGED <<transport, retryConfig, rateLimiter, requests, pc, attempt, wake,
                   outcome, calls, sleeps, replies, passed, submitted, dispatched,
                   fnVars, env, configFile, startFile, cmd, stage, saveCalls, ret,
                   local>>

\* the sleep is over and the loop condition is tested: the next status
\* request is made, or the time is up and waitForCompletion throws
PollSleep ==
    /\ hpc = "poll.sleep"
    /\ now' = now + pollInterval
    /\ IF now' - local.startTime < maxWaitTime
       THEN /\ branches' = <<"pending">>
            /\ hpc' = "poll.inflight"
            /\ UNCHANGED <<output, exitCode, ret>>
       ELSE /\ ret' = TimedOut
            /\ HandlerCatch
            /\ UNCHANGED branches
    /\ UNCHANGED <<transport, retryConfig, rateLimiter, requests, pc, attempt, wake,
                   outcome, calls, sleeps, replies, passed, submitted, dispatched,
                   fnVars, env, configFile, startFile, cmd, stage, saveCalls, local>>

-----------------------------------------------------------------------------
(* The login handler (index.ts) *)

LoginOptions == {"", "show-config", "validate"}

\* the key typed at the prompt, which the prompt lets through only if it is
\* non-blank and starts with dwlf_sk_
EnteredKey == Str("dwlf_sk_new")

\* the catch block of the login action
LoginCatch ==
    /\ output' = Append(output, Line("error", 0))
    /\ Exit(1)

RunLogin(option) ==
    /\ cmd = "none"
    /\ cmd' = "login"
    /\ hpc' = "login"
    /\ local' = [local EXCEPT !.option = option]
    /\ startFile' = configFile
    /\ UNCHANGED <<clientVars, fnVars, env, configFile, stage, branches, output,
                   exitCode, saveCalls, ret>>

\* --show-config: displayConfigStatus and return
LoginShowConfig ==
    /\ hpc = "login"
    /\ local.option = "show-config"
    /\ IF loadConfig(configFile).kind = "throw" THEN LoginCatch
       ELSE /\ output' = Append(output, Line("info", 0))
            /\ hpc' = "returned"
            /\ UNCHANGED exitCode
    /\ UNCHANGED <<clientVars, fnVars, env, configFile, startFile, cmd, stage,
                   branches, saveCalls, ret, local>>

\* --validate: the current key is looked up and sent for validation
LoginValidateCurrent ==
    /\ hpc = "login"
    /\ local.option = "validate"
    /\ LET currentKey == getApiKey(env, configFile)
       IN  IF currentKey.kind = "throw"
              \/ (currentKey.value # Null /\ getApiUrl(configFile).kind = "throw")
           THEN LoginCatch /\ UNCHANGED local
           ELSE IF currentKey.value = Null
           THEN /\ output' = Append(output, Line("not authenticated", 0))
                /\ hpc' = "returned"
                /\ UNCHANGED <<exitCode, local>>
           ELSE /\ local' = [local EXCEPT !.apiKey = currentKey.value]
                /\ hpc' = "login.validating"
                /\ UNCHANGED <<output, exitCode>>
    /\ UNCHANGED <<clientVars, fnVars, env, configFile, startFile, cmd, stage,
                   branches, saveCalls, ret>>

\* no option: is a key configured already?
LoginCheck ==
    /\ hpc = "login"
    /\ local.option = ""
    /\ LET authenticated == isAuthenticated(env, configFile)
       IN  IF authenticated.kind = "throw" THEN LoginCatch
           ELSE /\ hpc' = IF authenticated.value = Bool("true") THEN "login.confirm"
                          ELSE "login.prompt"
                /\ UNCHANGED <<output, exitCode>>
    /\ UNCHANGED <<clientVars, fnVars, env, configFile, startFile, cmd, stage,
                   branches, saveCalls, ret, local>>

\* "Do you want to update it?": yes, no, or the prompt is cancelled (it throws)
LoginConfirm(answer) ==
    /\ hpc = "login.confirm"
    /\ CASE answer = "yes" -> hpc' = "login.prompt" /\ UNCHANGED <<output, exitCode>>
         [] answer = "no" -> /\ output' = Append(output, Line("info", 0))
                             /\ hpc' = "returned"
                             /\ UNCHANGED exitCode
         [] OTHER -> LoginCatch
    /\ UNCHANGED <<clientVars, fnVars, env, configFile, startFile, cmd, stage,
                   branches, saveCalls, ret, local>>

\* "Enter your DWLF API key": a key is entered or the prompt is cancelled;
\* then getApiUrl, and the key is sent for validation
LoginPrompt(entered) ==
    /\ hpc = "login.prompt"
    /\ IF ~entered \/ getApiUrl(configFile).kind = "throw"
       THEN LoginCatch /\ UNCHANGED local
       ELSE /\ local' = [local EXCEPT !.apiKey = EnteredKey]
            /\ hpc' = "login.validating"
            /\ UNCHANGED <<output, exitCode>>
    /\ UNCHANGED <<clientVars, fnVars, env, configFile, startFile, cmd, stage,
                   branches, saveCalls, ret>>

\* validateApiKey resolves (it catches every failure). With --validate the
\* result is shown and the handler returns; otherwise an invalid key is
\* reported and ends the process, and a valid one is saved next
LoginValidated(valid) ==
    /\ hpc = "login.validating"
    /\ local' = [local EXCEPT !.valid = valid]
    /\ IF local.option = "validate"
       THEN /\ output' = Append(output, Line(IF valid THEN "valid" ELSE "invalid", 0))
            /\ hpc' = "returned"
            /\ UNCHANGED exitCode
       ELSE IF ~valid
       THEN /\ output' = Append(output, Line("invalid", 0))
            /\ Exit(1)
       ELSE /\ hpc' = "login.save"
            /\ UNCHANGED <<output, exitCode>>
    /\ UNCHANGED <<clientVars, fnVars, env, configFile, startFile, cmd, stage,
                   branches, saveCalls, ret>>

\* loadConfig, config.apiKey = apiKey.trim(), saveConfig(config), then the
\* validation result and the confirmation are shown
LoginSave(saved) ==
    /\ hpc = "login.save"
    /\ IF loadConfig(configFile).kind = "throw"
       THEN LoginCatch /\ UNCHANGED <<configFile, saveCalls>>
       ELSE /\ saved \in SaveOutcomes(configFile, local.apiKey)
            /\ saveCalls' = saveCalls + 1
            /\ configFile' = saved.file
            /\ IF saved.threw THEN LoginCatch
               ELSE /\ output' = output \o <<Line("valid", 0), Line("saved", 0)>>
                    /\ hpc' = "returned"
                    /\ UNCHANGED exitCode
    /\ UNCHANGED <<clientVars, fnVars, env, startFile, cmd, stage, branches, ret,
                   local>>

-----------------------------------------------------------------------------
(* The command line as a whole: one command is run per process *)

InitCli ==
    /\ IdleClient
    /\ fnArg = <<>>
    /\ fnRet = <<>>
    /\ fnOp = "none"
    /\ env \in EnvValues
    /\ configFile \in ConfigFiles
    /\ startFile = configFile
    /\ cmd = "none"
    /\ hpc = "none"
    /\ stage = 0
    /\ branches = <<>>
    /\ output = <<>>
    /\ exitCode = -1
    /\ saveCalls = 0
    /\ ret = NoReturn
    /\ local = NoLocals

NextCli ==
    \/ \E c \in Commands : RunCommand(c)
    \/ RunBody
    \/ Authenticate
    \/ SendRequests
    \/ \E ok \in BOOLEAN : SettleSingle(ok)
    \/ \E b \in 1..Len(branches), ok \in BOOLEAN : SettleAll(b, ok)
    \/ \E b \in 1..Len(branches), ok \in BOOLEAN : SettleAllSettled(b, ok)
    \/ ExitNormally
    \/ \E type \in FilterTypes : CallFetchEvents(type)
    \/ \E type \in FilterTypes \ {"undefined"} : EventsFetch(type)
    \/ \E i \in 1..Len(branches) : RequestSource(i)
    \/ \E i \in 1..Len(branches) : \E events \in SourceReplies(i) : SourceReply(i, events)
    \/ \E i \in 1..Len(branches) : SourceFailure(i)
    \/ ReturnEvents
    \/ CallGetApiKey
    \/ StartWaiting
    \/ \E status \in PollStatuses, latency \in PollLatencies : PollReply(status, latency)
    \/ \E latency \in PollLatencies : PollFailure(latency)
    \/ PollSleep
    \/ \E option \in LoginOptions : RunLogin(option)
    \/ LoginShowConfig
    \/ LoginValidateCurrent
    \/ LoginCheck
    \/ \E answer \in {"yes", "no", "cancel"} : LoginConfirm(answer)
    \/ \E entered \in BOOLEAN : LoginPrompt(entered)
    \/ \E valid \in BOOLEAN : LoginValidated(valid)
    \/ \E saved \in SaveOutcomes(configFile, local.apiKey) : LoginSave(saved)

SpecCli == InitCli /\ [][NextCli]_vars

\* the environment variable is unset or empty
EnvEmpty == env \in {Undef, Str("")}

\* the config file holds a non-empty apiKey
FileHasKey == configFile.kind = "json" /\ configFile.apiKey \notin {Undef, Str("")}

(* C16: when DWLF_API_KEY is set to a non-empty value getApiKey returns it,  *)
(* whatever the config file contains; the config file's apiKey is returned   *)
(* only when the variable is unset or empty, and null only when neither a    *)
(* variable nor a stored key exists.                                         *)
C16_EnvKeyFirst ==
    cmd = "getApiKey" =>
        /\ ~EnvEmpty => ret = Returned(env)
        /\ (FileHasKey /\ ret = Returned(configFile.apiKey)) => EnvEmpty
        /\ ret = Returned(Null) => (EnvEmpty /\ ~FileHasKey)

C16_Witness ==
    /\ cmd = "getApiKey"
    /\ env = Str("dwlf_sk_env")
    /\ configFile = JsonFile(Str("dwlf_sk_file"))
    /\ ret = Returned(Str("dwlf_sk_env"))

(* C17: the login handler writes the credential file only after the entered  *)
(* key has been validated successfully; on every path where validation fails *)
(* or a step throws, the handler ends without calling saveConfig and the     *)
(* stored configuration is unchanged.                                        *)
C17_NoSaveOnError ==
    cmd = "login" =>
        /\ (saveCalls > 0 \/ configFile # startFile) => local.valid
        /\ exitCode = 1 => (saveCalls = 0 /\ configFile = startFile)

\* a request whose failure reaches the handler's error path has failed
RequestFailed ==
    /\ stage >= 1
    /\ Plan(cmd)[stage].kind = "single"
    /\ branches = <<"rejected">>

(* C18: whenever an API request made by a command handler fails, the handler *)
(* prints an error line and the process exits with a non-zero status, for    *)
(* every command handler.                                                    *)
C18_ErrorExitsNonZero ==
    (cmd \in Commands /\ RequestFailed /\ exitCode # -1) =>
        /\ \E i \in 1..Len(output) : output[i].kind = "error"
        /\ exitCode # 0

\* the handler has fanned out several concurrent requests
FannedOut ==
    /\ cmd \in Commands
    /\ stage >= 1
    /\ Plan(cmd)[stage].kind \in {"all", "allSettled"}

Printed(line) == \E i \in 1..Len(output) : output[i] = line

(* C19: every handler that fans out concurrent requests joins them           *)
(* all-settled: when one branch fails the other branches still run to        *)
(* completion and their results are reported, and the failure is reported    *)
(* for the failing branch only.                                              *)
C19_FanOutAllSettled ==
    (FannedOut /\ exitCode # -1 /\ \E b \in 1..Len(branches) : branches[b] = "rejected") =>
        \A b \in 1..Len(branches) :
            /\ branches[b] # "pending"
            /\ branches[b] = "fulfilled" => Printed(Line("result", b)) /\ ~Printed(Line("failure", b))
            /\ branches[b] = "rejected" => Printed(Line("failure", b))

\* the events of a list, as a set
EventSet(events) == {events[i] : i \in 1..Len(events)}

(* C20: fetchEvents never rejects because an event source failed: when the   *)
(* system-events request fails the custom events are still requested and     *)
(* returned, and the other way round; when both fail it resolves to an empty *)
(* list.                                                                     *)
C20_FetchEventsNeverRejects ==
    (cmd = "fetchEvents" /\ hpc \in {"returned", "exited"}) =>
        /\ ret.kind = "return"
        /\ \A i \in 1..2 : WantsSource(local.option, i) =>
               branches[i] \in {"fulfilled", "rejected"}
        /\ branches = <<"rejected", "fulfilled">> =>
               \E r \in CustomReplies : EventSet(ret.value) = EventSet(r)
        /\ branches = <<"fulfilled", "rejected">> =>
               \E r \in SystemReplies : EventSet(ret.value) = EventSet(r)
        /\ (\A i \in 1..2 : branches[i] \in {"rejected", "skipped"}) => ret.value = <<>>

C20_Witness ==
    /\ cmd = "fetchEvents"
    /\ local.option = "undefined"
    /\ branches = <<"rejected", "fulfilled">>
    /\ Printed(Line("warning", 1))
    /\ ret = Returned(<<Event("c1", 2)>>)

-----------------------------------------------------------------------------
(* maskApiKey (config.ts) *)

MaxKeyLen == 20         \* enumerated keys have 1..MaxKeyLen characters

\* the key of the test 'should mask long keys showing prefix and suffix'
KeyText ==
    <<"d", "w", "l", "f", "_", "s", "k", "_", "a", "b", "c", "d", "e", "f", "g",
      "h", "i", "j", "k", "l", "m", "n", "o", "p", "q", "r", "s", "t", "u", "v",
      "w", "x", "y", "z">>

\* the keys maskApiKey is applied to: the pieces of KeyText
MaskKeys ==
    {SubSeq(KeyText, w[1], w[1] + w[2] - 1) :
        w \in {v \in (1..Len(KeyText)) \X (1..MaxKeyLen) : v[1] + v[2] - 1 <= Len(KeyText)}}

\* String.prototype.substring(start, end): both indices are clamped to
\* 0..length and swapped when start > end
substring(str, start, end) ==
    LET clamp(i) == IF i < 0 THEN 0 ELSE IF i > Len(str) THEN Len(str) ELSE i
        a == clamp(start)
        b == clamp(end)
    IN  IF a <= b THEN SubSeq(str, a + 1, b) ELSE SubSeq(str, b + 1, a)

\* String.prototype.repeat(count): a RangeError when count is negative
repeat(ch, count) ==
    IF count < 0 THEN Thrown ELSE Returned([i \in 1..count |-> ch])

\* maskApiKey(apiKey)
maskApiKey(apiKey) ==
    IF Len(apiKey) <= 8 THEN repeat("*", Len(apiKey))
    ELSE LET prefix == substring(apiKey, 0, 12)
             suffix == substring(apiKey, Len(apiKey) - 4, Len(apiKey))
             masked == repeat("*", Len(apiKey) - 16)
         IN  IF masked.kind = "throw" THEN Thrown
             ELSE Returned(prefix \o masked.value \o suffix)

InitMask ==
    /\ IdleClient
    /\ NoCommand
    /\ fnArg \in [apiKey : MaskKeys]
    /\ fnRet = <<>>
    /\ fnOp = "none"

ApplyMaskApiKey ==
    /\ fnOp = "none"
    /\ fnOp' = "maskApiKey"
    /\ fnRet' = maskApiKey(fnArg.apiKey)
    /\ UNCHANGED <<clientVars, handlerVars, fnArg>>

NextMask == ApplyMaskApiKey

SpecMask == InitMask /\ [][NextMask]_vars

\* every character of str from position from to position to is ch
AllAre(str, from, to, ch) == \A i \in from..to : str[i] = ch

(* C21: for every non-empty key maskApiKey returns a string of the key's     *)
(* length that contains at least one '*': keys of at most 8 characters are   *)
(* masked completely, longer keys show only their first 12 and last 4        *)
(* characters with every character in between replaced by '*'.               *)
C21_MaskedSameLength ==
    fnOp = "maskApiKey" =>
        LET key == fnArg.apiKey
            n == Len(key)
        IN  /\ fnRet.kind = "return"
            /\ Len(fnRet.value) = n
            /\ includes(fnRet.value, "*")
            /\ n <= 8 => AllAre(fnRet.value, 1, n, "*")
            /\ n > 8 => /\ SubSeq(fnRet.value, 1, 12) = SubSeq(key, 1, 12)
                        /\ SubSeq(fnRet.value, n - 3, n) = SubSeq(key, n - 3, n)
                        /\ AllAre(fnRet.value, 13, n - 4, "*")

-----------------------------------------------------------------------------
(* The gate under concurrent callers and several client instances *)

GateWindows == {1, 2}   \* rateLimit.per options, ms

\* One or NumClients client instances are constructed with the same
\* configuration; each has a fresh rate limiter.
InitGate ==
    /\ transport \in {"axios", "mock"}
    /\ retryConfig \in [maxRetries : {1}, baseDelay : BaseDelays,
                        maxDelay : {DefaultMaxDelay},
                        backoffMultiplier : {DefaultBackoffMultiplier}]
    /\ \/ /\ rateLimiter = NoRateLimit
          /\ requests = [c \in {1} |-> <<>>]
       \/ /\ rateLimiter \in [present : {TRUE}, maxRequests : MaxRequestsOptions,
                              windowMs : GateWindows]
          /\ requests \in {[c \in 1..n |-> <<>>] : n \in Clients}
    /\ now = 0
    /\ pc = [r \in Callers |-> "idle"]
    /\ attempt = [r \in Callers |-> 0]
    /\ wake = [r \in Callers |-> 0]
    /\ outcome = [r \in Callers |-> NoOutcome]
    /\ calls = [r \in Callers |-> 0]
    /\ sleeps = [r \in Callers |-> 0]
    /\ replies = [r \in Callers |-> <<>>]
    /\ passed = [r \in Callers |-> -1]
    /\ submitted = <<>>
    /\ dispatched = [r \in Callers |-> <<>>]
    /\ fnArg = <<>>
    /\ fnRet = <<>>
    /\ fnOp = "none"
    /\ NoCommand

\* With maxRetries = 1 a request has one attempt: no backoff sleep is started,
\* so the steps are those of Next without RetryWake
NextGate ==
    \/ \E r \in Callers, c \in Clients : CallLimited(r, c)
    \/ \E r \in Callers, c \in Clients : CallUnlimited(r, c)
    \/ \E r \in Callers : GateWake(r)
    \/ \E r \in Callers : Dispatch(r)
    \/ \E r \in Callers : Succeed(r)
    \/ \E r \in Callers, e \in NetErrors : Fail(r, e)
    \/ Tick

SpecGate == InitGate /\ [][NextGate]_vars

(* C22: concurrent callers of one rate-limited client pass the gate in       *)
(* submission order: if a called the gate before b then a's timestamp is     *)
(* recorded no later than b's, including when both were made to wait.        *)
C22_GateInSubmissionOrder ==
    rateLimiter.present =>
        \A i, j \in 1..Len(submitted) :
            LET a == submitted[i].caller
                b == submitted[j].caller
            IN  (i < j /\ submitted[i].client = submitted[j].client /\ passed[b] # -1) =>
                    (passed[a] # -1 /\ passed[a] <= passed[b])

\* the callers that made their call through the client instance r called through
SameClient(r) == {q \in Callers : pc[q] # "idle" /\ ClientOf(q) = ClientOf(r)}

\* caller r is waiting at the gate for an entry of its own client's log to
\* expire, and that log was full of its own client's requests
DelayedByOwnLog(r) ==
    /\ \E q \in SameClient(r) \ {r} :
           passed[q] # -1 /\ wake[r] = passed[q] + rateLimiter.windowMs
    /\ Cardinality({q \in SameClient(r) \ {r} :
                       passed[q] # -1 /\ passed[q] >= wake[r] - rateLimiter.windowMs})
           >= rateLimiter.maxRequests

\* a step changes the log of client instance c only by a caller of c acting
OnlyOwnCallersTouchLog ==
    \A c \in DOMAIN requests :
        requests'[c] # requests[c] =>
            \E r \in Callers : /\ pc'[r] # pc[r]
                               /\ \E i \in 1..Len(submitted') :
                                      submitted'[i].caller = r /\ submitted'[i].client = c

(* C23: each client instance owns its rate-limiter log: a request made       *)
(* through one client never adds a timestamp to the log of another client    *)
(* instance and is never delayed by it, even when both have identical        *)
(* rate-limit settings.                                                      *)
C23_OwnLogOnly ==
    /\ [](\A r \in Callers : pc[r] = "gateSleep" => DelayedByOwnLog(r))
    /\ [][OnlyOwnCallersTouchLog]_vars

\* with a limit of one request, two clients each let a request through at
\* the same instant, and a further request through the first client waits
C23_Witness ==
    /\ rateLimiter.present
    /\ rateLimiter.maxRequests = 1
    /\ DOMAIN requests = Clients
    /\ Len(submitted) = 3
    /\ submitted[1].client = 1 /\ passed[submitted[1].caller] = 0
    /\ submitted[2].client = 2 /\ passed[submitted[2].caller] = 0
    /\ submitted[3].client = 1 /\ pc[submitted[3].caller] = "gateSleep"
    /\ requests[1] = <<0>>
    /\ requests[2] = <<0>>

\* the log is in non-decreasing order
NonDecreasing(log) == \A i, j \in 1..Len(log) : i < j => log[i] <= log[j]

\* a caller of client instance c runs wait() in this step: on its call or
\* when its timer fires
ChecksLog(c) ==
    \E r \in Callers :
        /\ \/ pc[r] = "idle" /\ pc'[r] \in {"gateSleep", "ready"}
           \/ pc[r] = "gateSleep" /\ (pc'[r] = "ready" \/ wake'[r] # wake[r])
        /\ \E i \in 1..Len(submitted') : submitted'[i].caller = r /\ submitted'[i].client = c

(* C24: in every reachable state of a rate limiter with maxRequests >= 1 the *)
(* timestamp log holds at most maxRequests entries in non-decreasing order,  *)
(* and immediately after each check every retained entry is less than        *)
(* windowMs old.                                                             *)
C24_LogBoundedOrderedFresh ==
    /\ [](rateLimiter.present =>
              \A c \in DOMAIN requests :
                  /\ Len(requests[c]) <= rateLimiter.maxRequests
                  /\ NonDecreasing(requests[c]))
    /\ [][\A c \in DOMAIN requests :
              ChecksLog(c) =>
                  \A i \in 1..Len(requests'[c]) :
                      now' - requests'[c][i] < rateLimiter.windowMs]_vars

\* a full log after a check that dropped an expired entry and recorded the
\* request that had waited for it
C24_Witness ==
    /\ rateLimiter = [present |-> TRUE, maxRequests |-> 2, windowMs |-> 2]
    /\ Len(submitted) = 3
    /\ requests[1] = <<1, 2>>
    /\ passed[submitted[3].caller] = 2
    /\ now = 2

-----------------------------------------------------------------------------
(* Error normalization and the retry decision *)

(* C25: error normalization preserves the retry decision: for every          *)
(* transport failure e and attempt n, the retry check applied to the         *)
(* normalized error the response interceptor throws in place of e gives the  *)
(* same answer as the retry check applied to e itself.                       *)
C25_NormalizationKeepsRetry ==
    fnOp = "shouldRetryNormalized" => fnRet.normalized = fnRet.raw

\* the messages of the failures the normalizer takes for transient
TransientMessages == {MsgCannotConnect, MsgTimedOut, MsgRateLimit, MsgServerError}

(* C26: the retry classifier and the error normalizer agree on what is       *)
(* transient: a failure e is normalized to one of cannot-connect, timed-out, *)
(* rate-limited or server-error exactly when shouldRetry accepts e for an    *)
(* attempt below the maximum.                                                *)
C26_ClassifierAgreesWithNormalizer ==
    (fnOp = "classify" /\ fnArg.attempt < retryConfig.maxRetries) =>
        (fnRet.message \in TransientMessages <=> fnRet.retry)

-----------------------------------------------------------------------------
(* Termination of makeRequest *)

\* caller r's request has settled as the code settles it: resolved with the
\* response of its last dispatch, or rejected with that dispatch's failure
SettledOnLastAttempt(r) ==
    /\ Len(replies[r]) = calls[r]
    /\ pc[r] = "resolved" => (Last(replies[r]) = Ok /\ outcome[r] = Resolved(<<r, calls[r]>>))
    /\ pc[r] = "rejected" =>
           (~Last(replies[r]).ok /\ outcome[r] = Rejected(Rejection(Last(replies[r]).error)))

(* C27: every request terminates with a bounded number of attempts:          *)
(* makeRequest dispatches at most maxRetries + 1 attempts and then either    *)
(* resolves with a response or rejects with the failure of its last attempt, *)
(* provided each individual attempt and backoff sleep completes.             *)
C27_BoundedAttemptsThenSettles ==
    /\ [](\A r \in Callers :
              /\ calls[r] <= retryConfig.maxRetries + 1
              /\ Settled(r) => SettledOnLastAttempt(r))
    /\ \A r \in Callers : (pc[r] # "idle") ~> Settled(r)

\* a request that was retried and rejected with the failure of its second,
\* last attempt
C27_Witness ==
    \E r \in Callers :
        /\ transport = "mock"
        /\ retryConfig.maxRetries = 2
        /\ replies[r] = <<Failure(ErrConnRefused), Failure(ErrStatus(500))>>
        /\ calls[r] = 2
        /\ pc[r] = "rejected"
        /\ outcome[r] = Rejected(ErrStatus(500))

-----------------------------------------------------------------------------
(* backtest run *)

\* waitForCompletion is polling: a status request is in flight or the sleep
\* between two requests is going on
Polling == hpc \in {"poll.inflight", "poll.sleep"}

\* the handler has requested the results endpoint
ResultsRequested == stage = 3

(* C28: in backtest run without --async the results endpoint is requested    *)
(* only after a status poll has returned 'completed': polling repeats while  *)
(* the status is pending or running, stops at the first poll that returns    *)
(* 'completed' or 'failed', never fetches results after 'failed', and ends   *)
(* with a timeout error once 5 minutes have elapsed without a terminal       *)
(* status.                                                                   *)
C28_ResultsOnlyAfterCompleted ==
    /\ [](cmd = "backtest run" =>
              /\ ResultsRequested => local.status = "completed"
              /\ Polling => local.status \notin {"completed", "failed"}
              /\ hpc = "poll.sleep" => local.status \in {"pending", "running"}
              /\ local.status = "failed" =>
                     (stage = 2 /\ hpc \in {"returned", "exited"} /\ Printed(Line("failed", 0)))
              /\ ret = TimedOut =>
                     /\ now - local.startTime >= 5 * 60 * 1000
                     /\ local.status \in {"pending", "running"}
                     /\ stage = 2
                     /\ Printed(Line("error", 0)))
    /\ [][cmd = "backtest run" =>
              /\ (hpc = "poll.inflight" /\ local'.status \in {"pending", "running"}
                      /\ branches' = <<"fulfilled">>) => hpc' = "poll.sleep"
              /\ (hpc = "poll.sleep" /\ hpc' = "poll.inflight") =>
                     now' - local.startTime < 5 * 60 * 1000
              /\ (hpc = "poll.sleep" /\ now' - local.startTime >= 5 * 60 * 1000) =>
                     (ret' = TimedOut /\ hpc' \notin {"poll.inflight", "send", "await"})]_vars

\* after at least one poll that did not return a terminal status a poll has
\* returned 'completed' and the results were requested and printed
C28_Witness ==
    /\ cmd = "backtest run"
    /\ local.status = "completed"
    /\ now - local.startTime >= 2000
    /\ ResultsRequested
    /\ branches = <<"fulfilled">>
    /\ output = <<Line("result", 1), Line("completed", 0), Line("result", 1)>>

-----------------------------------------------------------------------------
(* trades open (src/unnamed/part_006, a version of index.ts) *)

MaxNumLen == 2

\* The characters the enumerated number options are made of
NumChars == {"0", "1", "-", "x"}

InfinityText == <<"I", "n", "f", "i", "n", "i", "t", "y">>

\* Endings put after the enumerated strings, so that Infinity occurs
NumTails == {<<>>, InfinityText}

\* what --quantity and --entry may be given as; none holds a '.' or an exponent
NumTexts ==
    {h \o t : h \in UNION {[1..n -> NumChars] : n \in 0..MaxNumLen}, t \in NumTails}

\* what --side may be given as
SideTexts ==
    {<<"b", "u", "y">>, <<"B", "U", "Y">>, <<"S", "e", "l", "l">>,
     <<"h", "o", "l", "d">>, <<>>}

DigitOf == [d \in {"0", "1"} |-> IF d = "0" THEN 0 ELSE 1]

NaN == [t |-> "NaN", v |-> 0]
Infinity(sign) == [t |-> "Infinity", v |-> sign]

\* the value of the longest run of decimal digits str starts with, after acc
RECURSIVE DigitsValue(_, _)
DigitsValue(str, acc) ==
    IF str # <<>> /\ Head(str) \in DOMAIN DigitOf
    THEN DigitsValue(Tail(str), 10 * acc + DigitOf[Head(str)])
    ELSE acc

\* parseFloat: leading white space is skipped, then an optional sign and
\* either Infinity or the longest prefix that is a decimal literal are read;
\* NaN when there is none. What follows the prefix is ignored.
parseFloat(text) ==
    LET s == trimStart(text)
        signed == s # <<>> /\ Head(s) \in {"-", "+"}
        sign == IF signed /\ Head(s) = "-" THEN -1 ELSE 1
        rest == IF signed THEN Tail(s) ELSE s
    IN  IF Len(rest) >= Len(InfinityText) /\ SubSeq(rest, 1, Len(InfinityText)) = InfinityText
        THEN Infinity(sign)
        ELSE IF rest # <<>> /\ Head(rest) \in DOMAIN DigitOf
        THEN Num(sign * DigitsValue(rest, 0))
        ELSE NaN

\* isNaN(x)
isNaN(val) == val.t = "NaN"

\* x <= 0
NotPositive(val) ==
    \/ val.t = "number" /\ val.v <= 0
    \/ val.t = "Infinity" /\ val.v < 0

\* JSON.stringify of a number, as axios serializes the request data: a finite
\* number is written as it is, NaN and the infinities as null
JsonNumber(val) == IF val.t = "number" THEN val ELSE [t |-> "null", v |-> 0]

\* the options commander hands to the action
TradeOptions == [side : SideTexts, quantity : NumTexts, entry : NumTexts, paper : BOOLEAN]

NoRequest == [method |-> "none", url |-> "", data |-> <<>>]

InitTrade ==
    /\ IdleClient
    /\ fnArg \in TradeOptions
    /\ fnRet = NoRequest
    /\ fnOp = "none"
    /\ env \in {Undef, Str("dwlf_sk_env")}
    /\ configFile = MissingFile
    /\ startFile = MissingFile
    /\ cmd = "trades open"
    /\ hpc = "auth"
    /\ stage = 0
    /\ branches = <<>>
    /\ output = <<>>
    /\ exitCode = -1
    /\ saveCalls = 0
    /\ ret = NoReturn
    /\ local = NoLocals

\* const apiKey = await getApiKey(); if (!apiKey) { ...; return; }
TradeAuthenticate ==
    /\ hpc = "auth"
    /\ LET apiKey == getApiKey(env, configFile)
       IN  IF apiKey.kind = "throw"
           THEN /\ output' = Append(output, Line("error", 0))
                /\ hpc' = "returned"
                /\ UNCHANGED local
           ELSE IF apiKey.value = Null
           THEN /\ output' = Append(output, Line("not authenticated", 0))
                /\ hpc' = "returned"
                /\ UNCHANGED local
           ELSE /\ local' = [local EXCEPT !.apiKey = apiKey.value]
                /\ hpc' = "validate"
                /\ UNCHANGED output
    /\ UNCHANGED <<clientVars, fnVars, env, configFile, startFile, cmd, stage,
                   branches, exitCode, saveCalls, ret>>

\* the side, the quantity and the entry price are validated in this order;
\* tradeData is built from what passed
TradeValidate ==
    /\ hpc = "validate"
    /\ LET side == toLowerCase(fnArg.side)
           quantity == parseFloat(fnArg.quantity)
           entryPrice == parseFloat(fnArg.entry)
       IN  IF side \notin {<<"b", "u", "y">>, <<"s", "e", "l", "l">>}
           THEN /\ output' = Append(output, Line("invalid side", 0))
                /\ hpc' = "returned"
                /\ UNCHANGED local
           ELSE IF isNaN(quantity) \/ NotPositive(quantity)
           THEN /\ output' = Append(output, Line("invalid quantity", 0))
                /\ hpc' = "returned"
                /\ UNCHANGED local
           ELSE IF isNaN(entryPrice) \/ NotPositive(entryPrice)
           THEN /\ output' = Append(output, Line("invalid entry", 0))
                /\ hpc' = "returned"
                /\ UNCHANGED local
           ELSE /\ local' = [local EXCEPT !.tradeData =
                                 [side |-> side, quantity |-> quantity,
                                  entryPrice |-> entryPrice, isPaperTrade |-> TRUE]]
                /\ output' = Append(output, Line("opening", 0))
                /\ hpc' = "send"
    /\ UNCHANGED <<clientVars, fnVars, env, configFile, startFile, cmd, stage,
                   branches, exitCode, saveCalls, ret>>

\* client.openTrade(tradeData): this.post('/trades', tradeData); the request
\* carries the data as JSON
TradeSubmit ==
    /\ hpc = "send"
    /\ cmd = "trades open"
    /\ fnRet' = [method |-> "POST", url |-> "/trades",
                 data |-> [local.tradeData EXCEPT
                               !.quantity = JsonNumber(local.tradeData.quantity),
                               !.entryPrice = JsonNumber(local.tradeData.entryPrice)]]
    /\ fnOp' = "openTrade"
    /\ stage' = 1
    /\ branches' = <<"pending">>
    /\ hpc' = "await"
    /\ UNCHANGED <<clientVars, fnArg, env, configFile, startFile, cmd, output,
                   exitCode, saveCalls, ret, local>>

\* the request settles: the trade is reported, or the catch block prints the
\* error and the action returns
TradeSettle(ok) ==
    /\ hpc = "await"
    /\ cmd = "trades open"
    /\ branches' = <<IF ok THEN "fulfilled" ELSE "rejected">>
    /\ output' = Append(output, Line(IF ok THEN "result" ELSE "error", 1))
    /\ hpc' = "returned"
    /\ UNCHANGED <<clientVars, fnVars, env, configFile, startFile, cmd, stage,
                   exitCode, saveCalls, ret, local>>

NextTrade ==
    \/ TradeAuthenticate
    \/ TradeValidate
    \/ TradeSubmit
    \/ \E ok \in BOOLEAN : TradeSettle(ok)

SpecTrade == InitTrade /\ [][NextTrade]_vars

\* a POST /trades request has been dispatched
TradePosted == fnRet.method = "POST" /\ fnRet.url = "/trades"

\* val is a number greater than zero
Positive(val) == val.t = "number" /\ val.v > 0

\* the options pass the three validations as the specification states them
ValidOptions ==
    /\ toLowerCase(fnArg.side) \in {<<"b", "u", "y">>, <<"s", "e", "l", "l">>}
    /\ ~isNaN(parseFloat(fnArg.quantity)) /\ ~NotPositive(parseFloat(fnArg.quantity))
    /\ ~isNaN(parseFloat(fnArg.entry)) /\ ~NotPositive(parseFloat(fnArg.entry))

(* C29: every POST /trades request dispatched by trades open has side in     *)
(* {buy, sell}, quantity > 0, entryPrice > 0 and isPaperTrade = true,        *)
(* whatever options were given (--paper absent included); when any of the    *)
(* validations fails no request is dispatched.                               *)
C29_DispatchedTradeIsValid ==
    /\ TradePosted =>
           /\ fnRet.data.side \in {<<"b", "u", "y">>, <<"s", "e", "l", "l">>}
           /\ Positive(fnRet.data.quantity)
           /\ Positive(fnRet.data.entryPrice)
           /\ fnRet.data.isPaperTrade = TRUE
    /\ ~ValidOptions => ~TradePosted

-----------------------------------------------------------------------------
(* Commands run without a key *)

\* neither DWLF_API_KEY nor a stored apiKey exists
NoKey == EnvEmpty /\ ~FileHasKey

\* no client has been constructed and no HTTP request dispatched
NoClientNoRequest == stage = 0 /\ branches = <<>> /\ local.apiKey = Undef

\* the handler is over
Stopped == hpc \in {"returned", "exited"}

====
